---- MODULE Spec2Model ----
(***************************************************************************)
(* A model of the response-processing and conversation core of AlgoDraft   *)
(* (src/backend/agent_handler.py) and of the HTTP layer that drives it     *)
(* (src/backend/main.py).                                                  *)
(*                                                                         *)
(* Texts (prompts, model outputs) are sequences of one-character strings,  *)
(* so that strip/sanitize/parse are computed and not assumed.              *)
(***************************************************************************)
EXTENDS Integers, Sequences, FiniteSets, TLC

(***************************************************************************)
(* Bounds of the model                                                     *)
(***************************************************************************)
\* messages appended to the live sessions (trimmed ones included) at any time
MaxAppends == 5
\* largest max_history_turns a ConversationManager is constructed with
MaxTurnsArg == 2
\* largest max_turns argument passed to get_history
MaxHistoryArg == 2

(***************************************************************************)
(* Program constants                                                       *)
(***************************************************************************)
DEFAULT_MAX_HISTORY_TURNS == 10
SESSION_TTL_SECONDS == 1800

\* An Optional value is the empty set (None) or the singleton of its value.
Nothing == {}
Some(v) == {v}
ValueOf(opt) == CHOOSE v \in opt : TRUE

\* session ids callers supply, and the ids uuid4() can generate
SessionIds == {"s1"}
Uuids == {"u1"}
Roles == {"user", "assistant", "system"}
Contents == {<<"c">>}

VARIABLES
    sessions,           \* ConversationManager._sessions: id -> _Session
    max_history_turns,  \* ConversationManager._max_turns
    ttl_seconds,        \* ConversationManager._ttl
    now,                \* the clock read by time.time()
    ret,                \* the last store operation: its name, arguments and return value
    appended,           \* history: id -> the messages appended since the session was created
    usedUuids,          \* history: the ids uuid4() has returned
    lock                \* ConversationManager._lock: the thread that holds it, if any

storeVars ==
    <<sessions, max_history_turns, ttl_seconds, now, ret, appended, usedUuids, lock>>

VARIABLES
    config,         \* AgentHandler._config
    env_api_key,    \* os.environ["ALGODRAFT_API_KEY"]
    templates,      \* PromptManager._templates
    registered,     \* history: name -> the template last passed to register_prompt
    th,             \* thread -> the locals of the flow it runs
    touched,        \* history: thread -> another caller changed its session during the call
    ncalls,         \* history: number of calls started
    served,         \* history: the exchanges the HTTP layer has answered with success
    config_file,    \* main.py: the content of CONFIG_FILE
    config_lock     \* main.py: _config_lock, the thread that holds it, if any

\* the environment of the process: ALGODRAFT_API_KEY, the config file and its lock
envVars == <<env_api_key, config_file, config_lock>>

registryVars == <<templates, registered>>

agentVars == <<config, envVars, registryVars, th, touched, ncalls, served>>

vars == <<storeVars, agentVars>>

(***************************************************************************)
(* Python sequence helpers                                                 *)
(***************************************************************************)
Min(a, b) == IF a < b THEN a ELSE b
Max(a, b) == IF a > b THEN a ELSE b

\* s[i:] with Python's treatment of a negative or too large start
PySliceFrom(s, i) ==
    LET n == Len(s)
        start == IF i < 0 THEN Max(n + i, 0) ELSE Min(i, n)
    IN  SubSeq(s, start + 1, n)

\* the last k elements of s (all of s when k >= Len(s)); k >= 0
LastK(s, k) == SubSeq(s, Len(s) - Min(k, Len(s)) + 1, Len(s))

IsSystem(m) == m.role = "system"
NotSystem(m) == m.role # "system"

(***************************************************************************)
(* Texts: a str is a sequence of characters.  A message the code builds    *)
(* from a literal is one token (Str); NUL is the character \x00.           *)
(***************************************************************************)
Str(token) == <<token>>
NUL == "NUL"
NL == "\n"
TAB == "\t"
\* the backquote character
BT == "BQ"

\* str.isspace, and the class [ \t] of sanitize
SpaceChars == {" ", TAB, NL}
HSpaceChars == {" ", TAB}
\* the class \w of the fence pattern
WordChars == {"a", "b", "c", "h", "i", "k", "o", "p", "q", "x", "y", "t", "e", "_", "0"}
IsSpace(c) == c \in SpaceChars
IsHSpace(c) == c \in HSpaceChars

RECURSIVE lstrip(_)
lstrip(s) == IF s # <<>> /\ IsSpace(Head(s)) THEN lstrip(Tail(s)) ELSE s

RECURSIVE rstrip(_)
rstrip(s) ==
    IF s # <<>> /\ IsSpace(s[Len(s)]) THEN rstrip(SubSeq(s, 1, Len(s) - 1)) ELSE s

\* str.lstrip in the place of str.strip: trailing whitespace is kept.
strip_leading_only(s) == lstrip(s)

\* str.strip()
strip(s) == rstrip(lstrip(s))

\* the first index >= i of s whose character is not in the class (Len(s)+1 if none)
RECURSIVE RunEnd(_, _, _)
RunEnd(s, i, class) ==
    IF i <= Len(s) /\ s[i] \in class THEN RunEnd(s, i + 1, class) ELSE i

HasChar(s, c) == \E i \in 1..Len(s) : s[i] = c

\* re.sub(r"[ \t]+\n", "\n", s); a text with no newline has no match
RECURSIVE SubTrailingSpace(_)
SubTrailingSpace(s) ==
    IF ~HasChar(s, NL) THEN s
    ELSE IF IsHSpace(s[1])
         THEN LET j == RunEnd(s, 1, HSpaceChars)
              IN  IF j <= Len(s) /\ s[j] = NL
                  THEN <<NL>> \o SubTrailingSpace(SubSeq(s, j + 1, Len(s)))
                  ELSE SubSeq(s, 1, j - 1) \o SubTrailingSpace(SubSeq(s, j, Len(s)))
         ELSE <<s[1]>> \o SubTrailingSpace(Tail(s))

\* re.sub(r"\n{3,}", "\n\n", s); a text with no newline has no match
RECURSIVE SubBlankLines(_)
SubBlankLines(s) ==
    IF ~HasChar(s, NL) THEN s
    ELSE IF s[1] = NL
         THEN LET j == RunEnd(s, 1, {NL})
              IN  (IF j - 1 >= 3 THEN <<NL, NL>> ELSE SubSeq(s, 1, j - 1))
                      \o SubBlankLines(SubSeq(s, j, Len(s)))
         ELSE <<s[1]>> \o SubBlankLines(Tail(s))

NotNUL(c) == c # NUL
\* s.replace("\x00", "")
RemoveNUL(s) == SelectSeq(s, NotNUL)

\* sep.join(parts)
RECURSIVE Join(_, _)
Join(parts, sep) ==
    IF parts = <<>> THEN <<>>
    ELSE IF Len(parts) = 1 THEN parts[1]
    ELSE parts[1] \o sep \o Join(Tail(parts), sep)

(***************************************************************************)
(* InputProcessor                                                          *)
(***************************************************************************)
MAX_INPUT_LENGTH == 50000
MAX_CODE_INPUT_LENGTH == 100000

sanitize(text) ==
    IF text = <<>> THEN <<>>
    ELSE RemoveNUL(SubBlankLines(SubTrailingSpace(strip(text))))

\* an exception: its class and its message (str(e))
Exc(type, msg) == [type |-> type, msg |-> msg]
\* the outcome of a call: a returned value, or a raised exception
Ok(v) == [raised |-> FALSE, value |-> v]
Raise(e) == [raised |-> TRUE, exc |-> e]

\* a validation that lets every input through
validate_prompt_lenient(text, max_length) == Ok(sanitize(text))

\* a validation that refuses a text of exactly max_length characters
validate_prompt_exclusive(text, max_length) ==
    LET cleaned == sanitize(text)
    IN  IF cleaned = <<>>
        THEN Raise(Exc("ValueError", Str("Prompt cannot be empty.")))
        ELSE IF Len(cleaned) >= max_length
        THEN Raise(Exc("ValueError", Str("Prompt too long.")))
        ELSE Ok(cleaned)

validate_prompt(text, max_length) ==
    LET cleaned == sanitize(text)
    IN  IF cleaned = <<>>
        THEN Raise(Exc("ValueError", Str("Prompt cannot be empty.")))
        ELSE IF Len(cleaned) > max_length
        THEN Raise(Exc("ValueError", Str("Prompt too long.")))
        ELSE Ok(cleaned)

validate_code(code) ==
    LET cleaned == sanitize(code)
    IN  IF cleaned = <<>>
        THEN Raise(Exc("ValueError", Str("Code input cannot be empty.")))
        ELSE IF Len(cleaned) > MAX_CODE_INPUT_LENGTH
        THEN Raise(Exc("ValueError", Str("Code too long.")))
        ELSE Ok(cleaned)

(***************************************************************************)
(* Data classes and OutputParser                                           *)
(***************************************************************************)
\* a code block that loses its language tag
CodeBlockUntagged(language, content) ==
    [language |-> <<"t", "e", "x", "t">>, content |-> content, label |-> <<>>]

CodeBlock(language, content) == [language |-> language, content |-> content, label |-> <<>>]
ResponseSection(type, content, language) ==
    [type |-> type, content |-> content, language |-> language]

\* AgentResponse() with its defaults
DefaultResponse ==
    [sections |-> <<>>, code_blocks |-> <<>>, summary |-> <<>>, has_code |-> FALSE,
     raw |-> <<>>, error |-> Nothing, model_used |-> "", provider_used |-> ""]

\* AgentResponse(error=msg, sections=[ResponseSection(type="error", content=msg)])
ErrorResponse(msg) ==
    [DefaultResponse EXCEPT !.error = Some(msg),
                            !.sections = <<ResponseSection("error", msg, <<>>)>>]

EMPTY_RESPONSE == Str("Empty response from AI model.")
TEXT_LANG == <<"t", "e", "x", "t">>

IsFenceAt(s, i) == i + 2 <= Len(s) /\ s[i] = BT /\ s[i + 1] = BT /\ s[i + 2] = BT

\* the first index >= i where a fence (three backquotes) starts (0 if none)
RECURSIVE NextFence(_, _)
NextFence(s, i) ==
    IF i + 2 > Len(s) THEN 0
    ELSE IF IsFenceAt(s, i) THEN i ELSE NextFence(s, i + 1)

\* the last index in lo..hi-1 holding a newline (0 if none)
RECURSIVE LastNL(_, _, _)
LastNL(s, lo, hi) ==
    IF hi - 1 < lo THEN 0
    ELSE IF s[hi - 1] = NL THEN hi - 1 ELSE LastNL(s, lo, hi - 1)

\* _CODE_BLOCK_PATTERN, fence (\w*)\s*\n(.*?) fence with DOTALL, tried at index i:
\* the match [start, end (exclusive), lang, body], or [start |-> 0] when it fails
MatchAt(s, i) ==
    IF ~IsFenceAt(s, i) THEN [start |-> 0]
    ELSE LET w == RunEnd(s, i + 3, WordChars)     \* \w* is greedy
             ws == RunEnd(s, w, SpaceChars)       \* \s* is greedy, then backs off to a \n
             nl == LastNL(s, w, ws)
         IN  IF nl = 0 THEN [start |-> 0]
             ELSE LET close == NextFence(s, nl + 1)   \* .*? stops at the first fence
                  IN  IF close = 0 THEN [start |-> 0]
                      ELSE [start |-> i, end |-> close + 3,
                            lang |-> SubSeq(s, i + 3, w - 1),
                            body |-> SubSeq(s, nl + 1, close - 1)]

\* _CODE_BLOCK_PATTERN.search(s, pos): the leftmost match starting at index >= i
RECURSIVE SearchFrom(_, _)
SearchFrom(s, i) ==
    IF i > Len(s) THEN [start |-> 0]
    ELSE LET m == MatchAt(s, i)
         IN  IF m.start # 0 THEN m ELSE SearchFrom(s, i + 1)

\* the loop of parse over finditer, from index last_end + 1 on
RECURSIVE ParseLoop(_, _, _)
ParseLoop(s, pos, acc) ==
    LET m == SearchFrom(s, pos)
    IN  IF m.start = 0
        THEN LET remaining == strip(SubSeq(s, pos, Len(s)))
             IN  IF remaining # <<>>
                 THEN [acc EXCEPT
                         !.sections = Append(@, ResponseSection("text", remaining, <<>>)),
                         !.text_parts = Append(@, remaining)]
                 ELSE acc
        ELSE LET text_before == strip(SubSeq(s, pos, m.start - 1))
                 lang == IF m.lang # <<>> THEN m.lang ELSE TEXT_LANG
                 code_content == strip(m.body)
                 acc1 == IF text_before # <<>>
                         THEN [acc EXCEPT
                                 !.sections = Append(@, ResponseSection("text", text_before, <<>>)),
                                 !.text_parts = Append(@, text_before)]
                         ELSE acc
                 acc2 == [acc1 EXCEPT
                            !.sections = Append(@, ResponseSection("code", code_content, lang)),
                            !.code_blocks = Append(@, CodeBlock(lang, code_content))]
             IN  ParseLoop(s, m.end, acc2)

\* parse with the test "if not raw_text" alone: a text of whitespace goes on
parse_empty_only(raw_text) ==
    IF raw_text = <<>>
    THEN [ErrorResponse(EMPTY_RESPONSE) EXCEPT !.raw = raw_text]
    ELSE LET s == strip(raw_text)
             r == ParseLoop(s, 1, [sections |-> <<>>, code_blocks |-> <<>>, text_parts |-> <<>>])
             r1 == IF r.sections = <<>>
                   THEN [r EXCEPT !.sections = <<ResponseSection("text", s, <<>>)>>,
                                  !.text_parts = <<s>>]
                   ELSE r
         IN  [DefaultResponse EXCEPT
                !.sections = r1.sections,
                !.code_blocks = r1.code_blocks,
                !.summary = Join(r1.text_parts, <<NL, NL>>),
                !.has_code = Len(r1.code_blocks) > 0,
                !.raw = s]

\* OutputParser.parse; an absent raw_text (None) is Nothing, handled by the caller
parse(raw_text) ==
    IF raw_text = <<>> \/ strip(raw_text) = <<>>
    THEN [ErrorResponse(EMPTY_RESPONSE) EXCEPT !.raw = raw_text]
    ELSE LET s == strip(raw_text)
             r == ParseLoop(s, 1, [sections |-> <<>>, code_blocks |-> <<>>, text_parts |-> <<>>])
             r1 == IF r.sections = <<>>
                   THEN [r EXCEPT !.sections = <<ResponseSection("text", s, <<>>)>>,
                                  !.text_parts = <<s>>]
                   ELSE r
         IN  [DefaultResponse EXCEPT
                !.sections = r1.sections,
                !.code_blocks = r1.code_blocks,
                !.summary = Join(r1.text_parts, <<NL, NL>>),
                !.has_code = Len(r1.code_blocks) > 0,
                !.raw = s]

\* OutputParser.extract_first_code_block: Nothing, or the first block
extract_first_code_block(raw_text) ==
    LET m == SearchFrom(raw_text, 1)
    IN  IF m.start # 0
        THEN Some(CodeBlock(IF m.lang # <<>> THEN m.lang ELSE TEXT_LANG, strip(m.body)))
        ELSE Nothing

(***************************************************************************)
(* ConversationMessage, _Session                                           *)
(***************************************************************************)
\* obj is the identity of the Python object (its number among the messages
\* created for its session)
ConversationMessage(role, content, t, obj) ==
    [role |-> role, content |-> content, timestamp |-> t, obj |-> obj]

\* ConversationMessage.to_dict
to_dict(m) == [role |-> m.role, content |-> m.content]

ToDicts(msgs) == [i \in 1..Len(msgs) |-> to_dict(msgs[i])]

NewSession(sid, t, turns) ==
    [session_id |-> sid, messages |-> <<>>, created_at |-> t,
     last_active |-> t, max_turns |-> turns]

\* d with key k bound to v (d[k] = v on a dict)
DictSet(d, k, v) == [x \in (DOMAIN d) \cup {k} |-> IF x = k THEN v ELSE d[x]]
\* d without the keys in ks (del d[k])
DictDel(d, ks) == [x \in (DOMAIN d) \ ks |-> d[x]]
EmptyDict == [x \in {} |-> {}]

(***************************************************************************)
(* ConversationManager                                                     *)
(***************************************************************************)
\* CONFIG_FILE as save_config(DEFAULT_CONFIG) leaves it: a JSON object
DefaultFile ==
    [kind |-> "object",
     value |-> [mode |-> "local", local_model |-> "mistral",
                local_code_model |-> "deepseek-coder:6.7b",
                cloud_provider |-> "openai", cloud_model |-> "gpt-4o", api_key |-> ""]]

\* the trim of add_message, applied to the messages after the append
TrimAll(msgs, turns) ==
    IF Len(msgs) > turns * 2
    THEN PySliceFrom(msgs, Len(msgs) - turns * 2)
    ELSE msgs

Trim(msgs, turns) ==
    IF Len(msgs) > turns * 2
    THEN LET system_msgs == SelectSeq(msgs, IsSystem)
             non_system == SelectSeq(msgs, NotSystem)
             keep == turns * 2
             trimmed == PySliceFrom(non_system, Len(non_system) - keep)
         IN  system_msgs \o trimmed
    ELSE msgs

\* the messages ever appended to the live session sid (none when it does not exist)
LogOf(ss, log, sid) == IF sid \in DOMAIN ss THEN log[sid] ELSE <<>>

RECURSIVE SumLen(_, _)
SumLen(log, ids) ==
    IF ids = {} THEN 0
    ELSE LET x == CHOOSE y \in ids : TRUE
         IN  Len(log[x]) + SumLen(log, ids \ {x})

\* add_message without the assignment to last_active
add_message_stale(ss, sid, role, content, t, obj, turns) ==
    LET s0 == IF sid \in DOMAIN ss THEN ss[sid] ELSE NewSession(sid, t, turns)
        msgs == Append(s0.messages, ConversationMessage(role, content, t, obj))
        s1 == [s0 EXCEPT !.messages = Trim(msgs, s0.max_turns)]
    IN  DictSet(ss, sid, s1)

\* the session map after add_message(sid, role, content) at time t
add_message(ss, sid, role, content, t, obj, turns) ==
    LET s0 == IF sid \in DOMAIN ss THEN ss[sid] ELSE NewSession(sid, t, turns)
        msgs == Append(s0.messages, ConversationMessage(role, content, t, obj))
        s1 == [s0 EXCEPT !.messages = Trim(msgs, s0.max_turns), !.last_active = t]
    IN  DictSet(ss, sid, s1)

\* the history log after the same call
LogAppend(ss, log, sid, role, content, t, obj) ==
    DictSet(log, sid, Append(LogOf(ss, log, sid), ConversationMessage(role, content, t, obj)))

\* Python's truth value of an Optional[int]: None and 0 are false
Truthy(opt) == opt # Nothing /\ opt # Some(0)

\* get_history(sid, max_turns)
get_history(ss, sid, max_turns) ==
    IF sid \notin DOMAIN ss
    THEN <<>>
    ELSE LET messages == ss[sid].messages
         IN  IF Truthy(max_turns)
             THEN ToDicts(PySliceFrom(messages, -(ValueOf(max_turns) * 2)))
             ELSE ToDicts(messages)

\* the expiry test with >= in place of >
ExpiredInclusive(ss, t, ttl) == {sid \in DOMAIN ss : (t - ss[sid].last_active) >= ttl}

\* a sweep that stops at the first expired session it finds
ExpiredFirstOnly(ss, t, ttl) ==
    LET old == {sid \in DOMAIN ss : (t - ss[sid].last_active) > ttl}
    IN  IF old = {} THEN {} ELSE {CHOOSE sid \in old : TRUE}

Expired(ss, t, ttl) == {sid \in DOMAIN ss : (t - ss[sid].last_active) > ttl}

list_sessions(ss) ==
    {[session_id |-> ss[sid].session_id, message_count |-> Len(ss[sid].messages),
      created_at |-> ss[sid].created_at, last_active |-> ss[sid].last_active]
        : sid \in DOMAIN ss}

(***************************************************************************)
(* The store driven directly by its callers: every operation runs inside   *)
(* the store's lock, so each is one step.  In this specification all calls *)
(* are made within one second of the clock: no session reaches its TTL.    *)
(***************************************************************************)
Init ==
    /\ sessions = EmptyDict
    /\ max_history_turns \in 0..MaxTurnsArg
    /\ ttl_seconds = SESSION_TTL_SECONDS
    /\ now = 0
    /\ ret = [op |-> "init"]
    /\ appended = EmptyDict
    /\ usedUuids = {}
    /\ lock = Nothing
    /\ config = EmptyDict
    /\ env_api_key = Nothing
    /\ templates = EmptyDict
    /\ registered = EmptyDict
    /\ th = EmptyDict
    /\ touched = EmptyDict
    /\ ncalls = 0
    /\ served = <<>>
    /\ config_file = DefaultFile
    /\ config_lock = Nothing

\* ids a caller can pass: the ones it chooses and the ones uuid4() has handed out
KnownIds == SessionIds \cup usedUuids

CreateSession ==
    \E sid \in {Nothing} \cup {Some(x) : x \in KnownIds} :
      \E id \in (IF sid = Nothing THEN Uuids \ usedUuids ELSE sid) :
        /\ sessions' = DictSet(sessions, id, NewSession(id, now, max_history_turns))
        /\ appended' = DictSet(appended, id, <<>>)
        /\ usedUuids' = IF sid = Nothing THEN usedUuids \cup {id} ELSE usedUuids
        /\ ret' = [op |-> "create_session", arg |-> sid, value |-> id]
        /\ UNCHANGED <<lock, max_history_turns, ttl_seconds, now>>
        /\ UNCHANGED agentVars

AddMessage ==
    \E sid \in KnownIds, role \in Roles, content \in Contents :
      LET obj == Len(LogOf(sessions, appended, sid)) + 1
      IN  /\ SumLen(appended, DOMAIN appended) < MaxAppends
          /\ sessions' = add_message(sessions, sid, role, content, now, obj,
                                     max_history_turns)
          /\ appended' = LogAppend(sessions, appended, sid, role, content, now, obj)
          /\ ret' = [op |-> "add_message", sid |-> sid]
          /\ UNCHANGED <<lock, max_history_turns, ttl_seconds, now, usedUuids>>
          /\ UNCHANGED agentVars

\* get_history on a store that creates the session it is asked about
GetHistoryCreating ==
    \E sid \in KnownIds, k \in {Nothing} \cup {Some(i) : i \in 0..MaxHistoryArg} :
        /\ ret' = [op |-> "get_history", sid |-> sid, k |-> k,
                   value |-> get_history(sessions, sid, k)]
        /\ sessions' = IF sid \in DOMAIN sessions THEN sessions
                       ELSE DictSet(sessions, sid, NewSession(sid, now, max_history_turns))
        /\ appended' = IF sid \in DOMAIN sessions THEN appended
                       ELSE DictSet(appended, sid, <<>>)
        /\ UNCHANGED <<lock, max_history_turns, ttl_seconds, now, usedUuids>>
        /\ UNCHANGED agentVars

\* get_history on a store that counts a read as activity of the session
GetHistoryTouching ==
    \E sid \in KnownIds, k \in {Nothing} \cup {Some(i) : i \in 0..MaxHistoryArg} :
        /\ ret' = [op |-> "get_history", sid |-> sid, k |-> k,
                   value |-> get_history(sessions, sid, k)]
        /\ sessions' = IF sid \in DOMAIN sessions
                       THEN [sessions EXCEPT ![sid].last_active = now]
                       ELSE sessions
        /\ UNCHANGED <<lock, max_history_turns, ttl_seconds, now, appended, usedUuids>>
        /\ UNCHANGED agentVars

GetHistory ==
    \E sid \in KnownIds, k \in {Nothing} \cup {Some(i) : i \in 0..MaxHistoryArg} :
        /\ ret' = [op |-> "get_history", sid |-> sid, k |-> k,
                   value |-> get_history(sessions, sid, k)]
        /\ UNCHANGED <<sessions, lock, max_history_turns, ttl_seconds, now, appended, usedUuids>>
        /\ UNCHANGED agentVars

\* clear_session that empties the store (self._sessions.clear() for the del)
ClearSessionAll ==
    \E sid \in KnownIds :
        /\ sessions' = EmptyDict
        /\ appended' = EmptyDict
        /\ ret' = [op |-> "clear_session", sid |-> sid, value |-> (sid \in DOMAIN sessions)]
        /\ UNCHANGED <<lock, max_history_turns, ttl_seconds, now, usedUuids>>
        /\ UNCHANGED agentVars

ClearSession ==
    \E sid \in KnownIds :
        /\ sessions' = DictDel(sessions, {sid})
        /\ appended' = DictDel(appended, {sid})
        /\ ret' = [op |-> "clear_session", sid |-> sid, value |-> (sid \in DOMAIN sessions)]
        /\ UNCHANGED <<lock, max_history_turns, ttl_seconds, now, usedUuids>>
        /\ UNCHANGED agentVars

CleanupExpired ==
    LET expired == Expired(sessions, now, ttl_seconds)
    IN  /\ sessions' = DictDel(sessions, expired)
        /\ appended' = DictDel(appended, expired)
        /\ ret' = [op |-> "cleanup_expired", at |-> now, value |-> Cardinality(expired)]
        /\ UNCHANGED <<lock, max_history_turns, ttl_seconds, now, usedUuids>>
        /\ UNCHANGED agentVars

ListSessions ==
    /\ ret' = [op |-> "list_sessions", value |-> list_sessions(sessions)]
    /\ UNCHANGED <<sessions, lock, max_history_turns, ttl_seconds, now, appended, usedUuids>>
    /\ UNCHANGED agentVars

Next ==
    \/ CreateSession
    \/ AddMessage
    \/ GetHistory
    \/ ClearSession
    \/ CleanupExpired
    \/ ListSessions

Spec == Init /\ [][Next]_vars

(***************************************************************************)
(* The store with a clock that advances between the calls                  *)
(***************************************************************************)
\* the largest value of the clock
MaxTime == 2
\* the largest ttl_seconds a store is constructed with
MaxTtlArg == 1
\* the largest max_history_turns a store with a clock is constructed with
MaxClockTurns == 1
\* add_message calls in one behaviour of the store with a clock
MaxClockAppends == 2

InitClock ==
    /\ sessions = EmptyDict
    /\ max_history_turns \in 0..MaxClockTurns
    /\ ttl_seconds \in 0..MaxTtlArg
    /\ now = 0
    /\ ret = [op |-> "init"]
    /\ appended = EmptyDict
    /\ usedUuids = {}
    /\ lock = Nothing
    /\ config = EmptyDict
    /\ env_api_key = Nothing
    /\ templates = EmptyDict
    /\ registered = EmptyDict
    /\ th = EmptyDict
    /\ touched = EmptyDict
    /\ ncalls = 0
    /\ served = <<>>
    /\ config_file = DefaultFile
    /\ config_lock = Nothing

\* time passes
Tick ==
    /\ now < MaxTime
    /\ now' = now + 1
    /\ UNCHANGED <<sessions, lock, max_history_turns, ttl_seconds, ret, appended, usedUuids>>
    /\ UNCHANGED agentVars

\* add_message, counted
ClockAddMessage ==
    /\ ncalls < MaxClockAppends
    /\ \E sid \in KnownIds, role \in Roles, content \in Contents :
        LET obj == Len(LogOf(sessions, appended, sid)) + 1
        IN  /\ sessions' = add_message(sessions, sid, role, content, now, obj,
                                       max_history_turns)
            /\ appended' = LogAppend(sessions, appended, sid, role, content, now, obj)
            /\ ret' = [op |-> "add_message", sid |-> sid]
    /\ ncalls' = ncalls + 1
    /\ UNCHANGED <<lock, max_history_turns, ttl_seconds, now, usedUuids>>
    /\ UNCHANGED <<config, envVars, registryVars, th, touched, served>>

NextClock ==
    \/ Tick
    \/ CreateSession
    \/ ClockAddMessage
    \/ GetHistory
    \/ ClearSession
    \/ CleanupExpired
    \/ ListSessions

SpecClock == InitClock /\ [][NextClock]_vars

(***************************************************************************)
(* Configuration, PromptManager, model backends                            *)
(***************************************************************************)
\* dict.get(key, default)
Get(d, key, default) == IF key \in DOMAIN d THEN d[key] ELSE default

\* DEFAULT_CONFIG of main.py: local mode with a code model
CfgLocal ==
    [mode |-> "local", local_model |-> "mistral", local_code_model |-> "deepseek-coder:6.7b",
     cloud_provider |-> "openai", cloud_model |-> "gpt-4o", api_key |-> ""]
CfgCloud(provider, key) == [CfgLocal EXCEPT !.mode = "cloud", !.cloud_provider = provider,
                                            !.api_key = key]
\* the configurations a handler is constructed with
InstanceConfigs == {CfgLocal, CfgCloud("OpenAI", ""), CfgCloud("bogus", "k")}
\* the per-call overrides: none, or a dict
Overrides == {Nothing, Some(CfgCloud("anthropic", "k"))}
\* os.environ.get("ALGODRAFT_API_KEY"): unset, or a key
EnvKeys == {Nothing, Some("envkey")}

CLOUD_PROVIDERS == {"openai", "anthropic", "huggingface"}
\* str.lower() on the provider names in use
Lower(x) == IF x = "OpenAI" THEN "openai" ELSE x

\* config or self._config: an absent or empty override is false
Resolve(override, instance) ==
    IF override # Nothing /\ DOMAIN ValueOf(override) # {} THEN ValueOf(override) ELSE instance

OllamaWrapper(model_name) == [class |-> "OllamaWrapper", model |-> model_name]
CloudModel(class, model, key) == [class |-> class, model |-> model, api_key |-> key]

\* a resolution that hands out a client whatever the provider and the credential
get_model_lenient(cfg, env) ==
    IF Get(cfg, "mode", "local") = "cloud"
    THEN {Ok(CloudModel("ChatOpenAI", Get(cfg, "cloud_model", ""), Get(cfg, "api_key", "")))}
    ELSE {Ok(OllamaWrapper(Get(cfg, "local_model", "mistral")))}

\* The outcomes of _get_model(cfg): the model, or the exception raised.  The local
\* branch runs "ollama list"/"ollama pull" (ensure_model), which may fail; a cloud
\* client is constructed without any call to the provider.
get_model(cfg, env) ==
    LET mode == Get(cfg, "mode", "local")
    IN  IF mode = "cloud"
        THEN LET provider == Lower(Get(cfg, "cloud_provider", "openai"))
                 model == Get(cfg, "cloud_model", "")
                 cfg_key == Get(cfg, "api_key", "")
                 api_key == IF cfg_key # "" THEN cfg_key
                            ELSE IF env # Nothing THEN ValueOf(env) ELSE ""
                 no_key == {Raise(Exc("RuntimeError", <<"API key not configured: ", provider>>))}
             IN  IF provider = "openai"
                 THEN IF api_key = "" THEN no_key
                      ELSE {Ok(CloudModel("ChatOpenAI", model, api_key))}
                 ELSE IF provider = "anthropic"
                 THEN IF api_key = "" THEN no_key
                      ELSE {Ok(CloudModel("ChatAnthropic", model, api_key))}
                 ELSE IF provider = "huggingface"
                 THEN IF api_key = "" THEN no_key
                      ELSE {Ok(CloudModel("HuggingFaceEndpoint", model, api_key))}
                 ELSE {Raise(Exc("RuntimeError", <<"Unsupported cloud provider: ", provider>>))}
        ELSE LET local_model == Get(cfg, "local_model", "mistral")
             IN  {Ok(OllamaWrapper(local_model)),
                  Raise(Exc("RuntimeError", <<"Failed to pull ollama model: ", local_model>>))}

get_provider_name(cfg) ==
    IF Get(cfg, "mode", "local") = "cloud" THEN Get(cfg, "cloud_provider", "openai")
    ELSE "ollama"

get_model_name(cfg) ==
    IF Get(cfg, "mode", "local") = "cloud" THEN Get(cfg, "cloud_model", "unknown")
    ELSE Get(cfg, "local_model", "mistral")

\* A template: its text (a token) and what str.format(**kwargs) does with it:
\*   "plain"      no placeholder: returned as it is
\*   "language"   the placeholder {language}: substituted
\*   "other"      a named placeholder that is not passed: KeyError, caught by get_prompt
\*   "positional" the placeholder {}: IndexError
\*   "malformed"  a single brace: ValueError
Template(text, fmt) == [text |-> text, fmt |-> fmt]
BuiltinTemplates ==
    [name \in {"research_assistant", "code_reviewer", "code_generator", "chat"} |->
        Template(name, IF name = "code_generator" THEN "language" ELSE "plain")]
\* the templates callers register
CustomTemplates == {Template("custom", "positional")}

\* PromptManager.get_prompt(template_name, **kwargs); kwargs is Nothing or the language
get_prompt(tpls, template_name, kwargs) ==
    IF template_name \notin DOMAIN tpls
    THEN Raise(Exc("ValueError", <<"Unknown prompt template ", template_name>>))
    ELSE LET template == tpls[template_name]
         IN  IF kwargs # Nothing
             THEN CASE template.fmt = "language" -> Ok(<<template.text, ValueOf(kwargs)>>)
                    [] template.fmt = "plain" -> Ok(<<template.text>>)
                    [] template.fmt = "other" -> Ok(<<template.text>>)
                    [] template.fmt = "positional" ->
                           Raise(Exc("IndexError", Str("Replacement index 0 out of range")))
                    [] template.fmt = "malformed" ->
                           Raise(Exc("ValueError", Str("Single '{' encountered in format string")))
             ELSE Ok(<<template.text>>)

(***************************************************************************)
(* AgentHandler: one call of a flow is a thread that goes through the      *)
(* steps of the flow; a step is one access to shared state or one call out *)
(* of the process.                                                         *)
(***************************************************************************)
MAX_RETRIES == 3
BASE_RETRY_DELAY == 1

Threads == {"t1"}
Flows == {"query", "analyze", "chat", "generate_code"}
\* prompts and code callers send
Prompts == {<<" ", NL>>, <<" ", "q", NL>>}
\* explicit contexts of analyze
Contexts == {Nothing, Some(<<"c">>)}
\* the language argument of generate_code
Languages == {"python"}
\* texts a model produces (stdout of ollama, content of a cloud reply)
ModelTexts == {<<" ">>, <<"a", NL, BT, BT, BT, "p", "y", NL, "x", NL, BT, BT, BT, NL>>}
\* errors of one underlying call
CallErrors == {Exc("RuntimeError", Str("timeout")), Exc("RuntimeError", Str("exit 1"))}
\* what the vector store returns: passages, none, or an exception
Retrievals == {"docs", "empty", "fail"}
DOC == <<"d">>
\* calls of flows started in one behaviour
MaxCalls == 2

\* the steps of each flow, in the order of the code
Program(flow) ==
    CASE flow = "query" ->
            <<"retrieve", "prompt", "history", "model", "invoke", "add_user", "add_assistant">>
      [] flow = "analyze" ->
            <<"retrieve", "prompt", "model", "invoke">>
      [] flow = "chat" ->
            <<"session", "history", "prompt", "retrieve", "model", "invoke",
              "add_user", "add_assistant">>
      [] flow = "generate_code" ->
            <<"model", "prompt", "retrieve", "history", "invoke", "add_user", "add_assistant">>

IdleThread ==
    [pc |-> "idle", flow |-> "", ip |-> 0,
     arg_prompt |-> <<>>, arg_sid |-> Nothing, arg_cfg |-> Nothing, arg_context |-> Nothing,
     language |-> "",
     prompt |-> <<>>, cfg |-> EmptyDict, session_id |-> Nothing, history |-> Nothing,
     system_prompt |-> <<>>, docs |-> <<>>, retrieval |-> "", model |-> Nothing, model_name |-> "",
     attempt |-> 0, last_error |-> Nothing, raw_response |-> Nothing,
     outcome |-> "none", response |-> Nothing, exc |-> Nothing, failed_at |-> "",
     calls |-> <<>>, waits |-> <<>>]

\* does the flow run this step with these locals?
Applicable(r, step) ==
    CASE step = "session" -> r.session_id = Nothing
      [] step = "history" -> r.flow = "chat" \/ r.session_id # Nothing
      [] step \in {"add_user", "add_assistant"} -> r.session_id # Nothing
      [] step = "retrieve" -> ~(r.flow = "analyze" /\ r.arg_context # Nothing
                                                   /\ ValueOf(r.arg_context) # <<>>)
      [] OTHER -> TRUE

\* the locals after the current step: at the next step the flow runs, or returning
RECURSIVE Advance(_)
Advance(r) ==
    LET prog == Program(r.flow)
    IN  IF r.ip + 1 > Len(prog)
        THEN [r EXCEPT !.pc = "done", !.outcome = "returned"]
        ELSE LET r1 == [r EXCEPT !.ip = r.ip + 1, !.pc = prog[r.ip + 1]]
             IN  IF Applicable(r1, prog[r.ip + 1]) THEN r1 ELSE Advance(r1)

\* the except clauses of a flow: ValueError, then Exception
ExceptionClasses == {"ValueError", "RuntimeError", "IndexError", "KeyError", "Exception"}

CatchValueErrorOnly(r, e) ==
    IF e.type = "ValueError"
    THEN [r EXCEPT !.pc = "done", !.outcome = "returned", !.failed_at = r.pc,
                   !.response = Some(ErrorResponse(e.msg))]
    ELSE [r EXCEPT !.pc = "done", !.outcome = "raised", !.failed_at = r.pc,
                   !.exc = Some(e)]

Catch(r, e) ==
    IF e.type = "ValueError"
    THEN [r EXCEPT !.pc = "done", !.outcome = "returned", !.failed_at = r.pc,
                   !.response = Some(ErrorResponse(e.msg))]
    ELSE IF e.type \in ExceptionClasses
    THEN [r EXCEPT !.pc = "done", !.outcome = "returned", !.failed_at = r.pc,
                   !.response = Some(ErrorResponse(e.msg))]
    ELSE [r EXCEPT !.pc = "done", !.outcome = "raised", !.failed_at = r.pc,
                   !.exc = Some(e)]

\* d.page_content[:500]
Take(s, n) == SubSeq(s, 1, Min(n, Len(s)))
Take500(docs) == [i \in 1..Len(docs) |-> Take(docs[i], 500)]

\* the user message each flow builds from the prompt and the passages
UserMessage(r) ==
    CASE r.flow = "query" ->
            <<"Context:\n\n">> \o Join(r.docs, <<NL, NL>>)
                \o <<"\n\nUser question: ">> \o r.prompt
      [] r.flow = "analyze" ->
            <<"Context:\n">> \o Join(r.docs, <<NL>>)
                \o <<"\n\nSelected code:\n">> \o r.prompt
      [] r.flow = "chat" ->
            IF r.docs # <<>>
            THEN <<"Relevant research context (use only if related to the question):\n">>
                    \o Join(Take500(r.docs), <<NL, NL>>)
                    \o <<"\n\nUser message: ">> \o r.prompt
            ELSE r.prompt
      [] r.flow = "generate_code" ->
            IF r.docs # <<>>
            THEN <<"Relevant research context (incorporate applicable algorithms/patterns):\n">>
                    \o Join(Take500(r.docs), <<NL, NL>>)
                    \o <<"\n\nGenerate ", r.language, " code for the following:\n\n">>
                    \o r.prompt
            ELSE <<"Generate ", r.language, " code for the following:\n\n">> \o r.prompt

IsUserOrAssistant(h) == h.role \in {"user", "assistant"}

\* the messages _invoke_model hands to the underlying call
Messages(r) ==
    LET history == IF r.history = Nothing THEN <<>> ELSE ValueOf(r.history)
        first == <<[role |-> "system", content |-> r.system_prompt]>>
        last == <<[role |-> "user", content |-> UserMessage(r)]>>
    IN  IF ValueOf(r.model).class = "OllamaWrapper"
        THEN first \o history \o last
        ELSE first \o SelectSeq(history, IsUserOrAssistant) \o last

\* the outcomes of one underlying call: OllamaWrapper.__call__ returns the stripped
\* stdout or raises; a cloud model returns resp.content or raises
CallOutcomes(model) ==
    {Raise(e) : e \in CallErrors}
        \cup (IF model.class = "OllamaWrapper"
              THEN {Ok(strip(x)) : x \in ModelTexts}
              ELSE {Ok(x) : x \in ModelTexts})

\* a failure that does not carry the underlying error
InvocationFailedBare(last_error) ==
    Exc("RuntimeError", <<"AI model invocation failed after 3 attempts: ">>)

\* the RuntimeError _invoke_model raises when every attempt failed
InvocationFailed(last_error) ==
    Exc("RuntimeError", <<"AI model invocation failed after 3 attempts: ">> \o last_error.msg)

\* a delay that grows by 2 seconds with each attempt
LinearBackoff(n) == 2 * n

\* 2 ** n
RECURSIVE Pow2(_)
Pow2(n) == IF n = 0 THEN 1 ELSE 2 * Pow2(n - 1)

\* the name stamped as model_used
StampedModel(r) ==
    IF r.flow = "generate_code" THEN r.model_name ELSE get_model_name(r.cfg)

\* parse the raw response and stamp it
Parsed(r, raw) ==
    [parse(raw) EXCEPT !.model_used = StampedModel(r),
                       !.provider_used = get_provider_name(r.cfg)]

(***************************************************************************)
(* The flows of AgentHandler                                               *)
(***************************************************************************)
AgentUuids == {"u1", "u2"}
\* the session_id arguments callers pass
SidArgs == {Nothing, Some("s1")}
\* if session_id: None and the empty string are false
SidGiven(sid) == sid # Nothing /\ sid # Some("")

InitAgent ==
    /\ sessions = EmptyDict
    /\ max_history_turns = DEFAULT_MAX_HISTORY_TURNS
    /\ ttl_seconds = SESSION_TTL_SECONDS
    /\ now = 0
    /\ ret = [op |-> "init"]
    /\ appended = EmptyDict
    /\ usedUuids = {}
    /\ lock = Nothing
    /\ config \in InstanceConfigs
    /\ env_api_key \in EnvKeys
    /\ templates = BuiltinTemplates
    /\ registered = EmptyDict
    /\ th = [t \in Threads |-> IdleThread]
    /\ touched = [t \in Threads |-> FALSE]
    /\ ncalls = 0
    /\ served = <<>>
    /\ config_file = DefaultFile
    /\ config_lock = Nothing

\* the thread is inside a call: from its entry until the caller has the result
Running(t) == th[t].pc # "idle"

\* The entry of query / analyze / chat / generate_code up to the first step:
\* validation of the input and cfg = config or self._config
Enter(flow, p, sid, o, c, lang, instance) ==
    LET v == IF flow = "analyze" THEN validate_code(p)
             ELSE validate_prompt(p, MAX_INPUT_LENGTH)
        r0 == [IdleThread EXCEPT !.pc = "validate", !.flow = flow, !.arg_prompt = p,
                                 !.arg_sid = sid, !.arg_cfg = o, !.arg_context = c,
                                 !.language = IF flow = "generate_code" THEN lang ELSE ""]
    IN  IF v.raised THEN Catch(r0, v.exc)
        ELSE Advance([r0 EXCEPT
                !.prompt = v.value,
                !.cfg = Resolve(o, instance),
                !.session_id = IF SidGiven(sid) THEN sid ELSE Nothing,
                !.docs = IF c # Nothing /\ ValueOf(c) # <<>> THEN <<ValueOf(c)>> ELSE <<>>])

Call(t) ==
    /\ th[t].pc = "idle"
    /\ ncalls < MaxCalls
    /\ \E flow \in Flows, p \in Prompts, sid \in SidArgs, o \in Overrides, c \in Contexts,
          lang \in Languages :
        /\ flow = "analyze" => sid = Nothing
        /\ flow # "analyze" => c = Nothing
        /\ th' = [th EXCEPT ![t] = Enter(flow, p, sid, o, c, lang, config)]
    /\ ncalls' = ncalls + 1
    /\ touched' = [touched EXCEPT ![t] = FALSE]
    /\ UNCHANGED <<storeVars, config, envVars, registryVars, served>>

\* chat: session_id = self._conversation.create_session()
\* the session step with a fixed id in place of uuid4()
EnsureSessionFixedId(t) ==
    /\ th[t].pc = "session"
    /\ \E id \in {"s1"} :
        /\ sessions' = DictSet(sessions, id, NewSession(id, now, max_history_turns))
        /\ appended' = DictSet(appended, id, <<>>)
        /\ usedUuids' = usedUuids
        /\ th' = [th EXCEPT ![t] = Advance([th[t] EXCEPT !.session_id = Some(id)])]
    /\ UNCHANGED <<lock, max_history_turns, ttl_seconds, now, ret, config, envVars, registryVars,
                   touched, ncalls, served>>

EnsureSession(t) ==
    /\ th[t].pc = "session"
    /\ \E id \in AgentUuids \ usedUuids :
        /\ sessions' = DictSet(sessions, id, NewSession(id, now, max_history_turns))
        /\ appended' = DictSet(appended, id, <<>>)
        /\ usedUuids' = usedUuids \cup {id}
        /\ th' = [th EXCEPT ![t] = Advance([th[t] EXCEPT !.session_id = Some(id)])]
    /\ UNCHANGED <<lock, max_history_turns, ttl_seconds, now, ret, config, envVars, registryVars,
                   touched, ncalls, served>>

\* get_history(session_id) in chat, get_history(session_id, max_turns=3) elsewhere
History(t) ==
    /\ th[t].pc = "history"
    /\ LET k == IF th[t].flow = "chat" THEN Nothing ELSE Some(3)
           h == get_history(sessions, ValueOf(th[t].session_id), k)
       IN  th' = [th EXCEPT ![t] = Advance([th[t] EXCEPT !.history = Some(h)])]
    /\ UNCHANGED <<storeVars, config, envVars, registryVars, touched, ncalls, served>>

TemplateOf(flow) ==
    CASE flow = "query" -> "research_assistant"
      [] flow = "analyze" -> "code_reviewer"
      [] flow = "chat" -> "chat"
      [] flow = "generate_code" -> "code_generator"

\* system_prompt = self._prompt_manager.get_prompt(...)
Prompt(t) ==
    /\ th[t].pc = "prompt"
    /\ LET kw == IF th[t].flow = "generate_code" THEN Some(th[t].language) ELSE Nothing
           v == get_prompt(templates, TemplateOf(th[t].flow), kw)
       IN  th' = [th EXCEPT ![t] =
                    IF v.raised THEN Catch(th[t], v.exc)
                    ELSE Advance([th[t] EXCEPT !.system_prompt = v.value])]
    /\ UNCHANGED <<storeVars, config, envVars, registryVars, touched, ncalls, served>>

\* the locals after a retrieval that found passages, found none, or failed in a
\* flow that swallows the failure
Retrieved(r, found) ==
    Advance([r EXCEPT !.retrieval = found,
                      !.docs = IF found = "docs" THEN <<DOC>> ELSE r.docs])

RetrievalError == Exc("Exception", Str("vector store unavailable"))

\* a retrieval whose failure no flow lets through
RetrieveSwallowing(t) ==
    /\ th[t].pc = "retrieve"
    /\ \E found \in Retrievals : th' = [th EXCEPT ![t] = Retrieved(th[t], found)]
    /\ UNCHANGED <<storeVars, config, envVars, registryVars, touched, ncalls, served>>

\* a retrieval whose failure ends every flow
RetrieveFatal(t) ==
    /\ th[t].pc = "retrieve"
    /\ \E found \in Retrievals :
        th' = [th EXCEPT ![t] =
                 IF found = "fail"
                 THEN Catch([th[t] EXCEPT !.retrieval = found], RetrievalError)
                 ELSE Retrieved(th[t], found)]
    /\ UNCHANGED <<storeVars, config, envVars, registryVars, touched, ncalls, served>>

\* _get_vectorstore() and the similarity search: query and analyze let the
\* exception reach the handler of the flow, chat and generate_code swallow it
Retrieve(t) ==
    /\ th[t].pc = "retrieve"
    /\ \E found \in Retrievals :
        th' = [th EXCEPT ![t] =
                 IF found = "fail" /\ th[t].flow \in {"query", "analyze"}
                 THEN Catch([th[t] EXCEPT !.retrieval = found], RetrievalError)
                 ELSE Retrieved(th[t], found)]
    /\ UNCHANGED <<storeVars, config, envVars, registryVars, touched, ncalls, served>>

\* a test of the code model that does not look at the mode
UsesCodeModelAnyMode(r) ==
    /\ r.flow = "generate_code"
    /\ Get(r.cfg, "local_code_model", "") # ""

\* the configuration generate_code passes to _get_model
UsesCodeModel(r) ==
    /\ r.flow = "generate_code"
    /\ Get(r.cfg, "mode", "") = "local"
    /\ Get(r.cfg, "local_code_model", "") # ""

CodeCfg(cfg) == DictSet(cfg, "local_model", cfg["local_code_model"])

\* model = self._get_model(cfg)
Model(t) ==
    /\ th[t].pc = "model"
    /\ LET r == th[t]
           used == IF UsesCodeModel(r) THEN CodeCfg(r.cfg) ELSE r.cfg
           name == IF UsesCodeModel(r) THEN r.cfg["local_code_model"]
                   ELSE get_model_name(r.cfg)
       IN  \E v \in get_model(used, env_api_key) :
             th' = [th EXCEPT ![t] =
                      IF v.raised THEN Catch(r, v.exc)
                      ELSE Advance([r EXCEPT !.model = Some(v.value), !.model_name = name])]
    /\ UNCHANGED <<storeVars, config, envVars, registryVars, touched, ncalls, served>>

\* One iteration of the loop of _invoke_model: the underlying call, and on an
\* exception the decision to wait or to give up.  On success the flow parses
\* and stamps the response.
Attempt(t) ==
    /\ th[t].pc = "invoke"
    /\ LET r == th[t]
       IN  \E v \in CallOutcomes(ValueOf(r.model)) :
             LET r1 == [r EXCEPT !.calls = Append(r.calls, v)]
             IN  th' = [th EXCEPT ![t] =
                   IF ~v.raised
                   THEN Advance([r1 EXCEPT !.raw_response = Some(v.value),
                                           !.response = Some(Parsed(r, v.value))])
                   ELSE IF r.attempt < MAX_RETRIES - 1
                   THEN [r1 EXCEPT !.last_error = Some(v.exc), !.pc = "sleep",
                                   !.waits = Append(r.waits,
                                                    BASE_RETRY_DELAY * Pow2(r.attempt))]
                   ELSE Catch([r1 EXCEPT !.last_error = Some(v.exc)],
                              InvocationFailed(v.exc))]
    /\ UNCHANGED <<storeVars, config, envVars, registryVars, touched, ncalls, served>>

\* time.sleep(delay) returns: the next iteration
Wake(t) ==
    /\ th[t].pc = "sleep"
    /\ th' = [th EXCEPT ![t] = [th[t] EXCEPT !.attempt = th[t].attempt + 1, !.pc = "invoke"]]
    /\ UNCHANGED <<storeVars, config, envVars, registryVars, touched, ncalls, served>>

\* self._conversation.add_message(session_id, role, content) from a flow
FlowAdd(t, role, content) ==
    LET sid == ValueOf(th[t].session_id)
        obj == Len(LogOf(sessions, appended, sid)) + 1
    IN  /\ sessions' = add_message(sessions, sid, role, content, now, obj, max_history_turns)
        /\ appended' = LogAppend(sessions, appended, sid, role, content, now, obj)
        /\ th' = [th EXCEPT ![t] = Advance(th[t])]
        /\ UNCHANGED <<lock, max_history_turns, ttl_seconds, now, ret, usedUuids, config,
                       envVars, registryVars, touched, ncalls, served>>

\* a flow that records the prompt as it was passed
AddUserUnvalidated(t) ==
    /\ th[t].pc = "add_user"
    /\ FlowAdd(t, "user", th[t].arg_prompt)

AddUser(t) ==
    /\ th[t].pc = "add_user"
    /\ FlowAdd(t, "user", th[t].prompt)

AddAssistant(t) ==
    /\ th[t].pc = "add_assistant"
    /\ FlowAdd(t, "assistant", ValueOf(th[t].raw_response))

\* the caller has the result; the thread can serve another call
Return(t) ==
    /\ th[t].pc = "done"
    /\ th' = [th EXCEPT ![t] = IdleThread]
    /\ UNCHANGED <<storeVars, config, envVars, registryVars, touched, ncalls, served>>

\* another caller: AgentHandler.clear_session(session_id)
OtherClearSession ==
    \E sid \in {"s1"} \cup usedUuids :
        /\ sid \in DOMAIN sessions
        /\ sessions' = DictDel(sessions, {sid})
        /\ appended' = DictDel(appended, {sid})
        /\ ret' = [op |-> "clear_session", sid |-> sid, value |-> TRUE]
        /\ touched' = [t \in Threads |->
                         touched[t] \/ (Running(t) /\ th[t].session_id = Some(sid))]
        /\ UNCHANGED <<lock, max_history_turns, ttl_seconds, now, usedUuids, config, envVars,
                       registryVars, th, ncalls, served>>

\* another caller: PromptManager.register_prompt("code_generator", template)
RegisterPrompt ==
    \E tpl \in CustomTemplates :
        /\ templates["code_generator"] = BuiltinTemplates["code_generator"]
        /\ templates' = DictSet(templates, "code_generator", tpl)
        /\ registered' = DictSet(registered, "code_generator", tpl)
        /\ UNCHANGED <<storeVars, config, envVars, th, touched, ncalls, served>>

NextAgent ==
    \/ \E t \in Threads : Call(t)
    \/ \E t \in Threads : EnsureSession(t)
    \/ \E t \in Threads : History(t)
    \/ \E t \in Threads : Prompt(t)
    \/ \E t \in Threads : Retrieve(t)
    \/ \E t \in Threads : Model(t)
    \/ \E t \in Threads : Attempt(t)
    \/ \E t \in Threads : Wake(t)
    \/ \E t \in Threads : AddUser(t)
    \/ \E t \in Threads : AddAssistant(t)
    \/ \E t \in Threads : Return(t)
    \/ OtherClearSession
    \/ RegisterPrompt

SpecAgent == InitAgent /\ [][NextAgent]_vars

(***************************************************************************)
(* The flows at the edges of their inputs: a configuration whose mode is   *)
(* neither local nor cloud, and prompts and code one character over their   *)
(* ceilings.                                                                *)
(***************************************************************************)
CfgHybrid == [CfgLocal EXCEPT !.mode = "hybrid"]
\* the text of n characters "a"
RECURSIVE Repeat(_)
Repeat(n) ==
    IF n = 0 THEN <<>>
    ELSE LET half == Repeat(n \div 2)
         IN  half \o half \o (IF n % 2 = 1 THEN <<"a">> ELSE <<>>)
LongPrompt == Repeat(MAX_INPUT_LENGTH + 1)
LongCode == Repeat(MAX_CODE_INPUT_LENGTH + 1)
EdgePrompts(flow) ==
    {<<" ", NL>>, <<"q">>} \cup (IF flow = "analyze" THEN {LongCode} ELSE {LongPrompt})

InitEdge ==
    /\ sessions = EmptyDict
    /\ max_history_turns = DEFAULT_MAX_HISTORY_TURNS
    /\ ttl_seconds = SESSION_TTL_SECONDS
    /\ now = 0
    /\ ret = [op |-> "init"]
    /\ appended = EmptyDict
    /\ usedUuids = {}
    /\ lock = Nothing
    /\ config \in {CfgLocal, CfgHybrid}
    /\ env_api_key = Nothing
    /\ templates = BuiltinTemplates
    /\ registered = EmptyDict
    /\ th = [t \in Threads |-> IdleThread]
    /\ touched = [t \in Threads |-> FALSE]
    /\ ncalls = 0
    /\ served = <<>>
    /\ config_file = DefaultFile
    /\ config_lock = Nothing

CallEdge(t) ==
    /\ th[t].pc = "idle"
    /\ ncalls < MaxCalls
    /\ \E flow \in Flows, sid \in SidArgs, c \in Contexts, lang \in Languages :
        \E p \in EdgePrompts(flow) :
            /\ flow = "analyze" => sid = Nothing
            /\ flow # "analyze" => c = Nothing
            /\ th' = [th EXCEPT ![t] = Enter(flow, p, sid, Nothing, c, lang, config)]
    /\ ncalls' = ncalls + 1
    /\ touched' = [touched EXCEPT ![t] = FALSE]
    /\ UNCHANGED <<storeVars, config, envVars, registryVars, served>>

NextEdge ==
    \/ \E t \in Threads : CallEdge(t)
    \/ \E t \in Threads : EnsureSession(t)
    \/ \E t \in Threads : History(t)
    \/ \E t \in Threads : Prompt(t)
    \/ \E t \in Threads : Retrieve(t)
    \/ \E t \in Threads : Model(t)
    \/ \E t \in Threads : Attempt(t)
    \/ \E t \in Threads : Wake(t)
    \/ \E t \in Threads : AddUser(t)
    \/ \E t \in Threads : AddAssistant(t)
    \/ \E t \in Threads : Return(t)

SpecEdge == InitEdge /\ [][NextEdge]_vars

(***************************************************************************)
(* Calls that pass a configuration override: a dict, which may be empty     *)
(***************************************************************************)
OverrideArgs == {Some(EmptyDict), Some(CfgLocal), Some(CfgCloud("anthropic", "k"))}

InitOverride ==
    /\ sessions = EmptyDict
    /\ max_history_turns = DEFAULT_MAX_HISTORY_TURNS
    /\ ttl_seconds = SESSION_TTL_SECONDS
    /\ now = 0
    /\ ret = [op |-> "init"]
    /\ appended = EmptyDict
    /\ usedUuids = {}
    /\ lock = Nothing
    /\ config \in InstanceConfigs
    /\ env_api_key \in EnvKeys
    /\ templates = BuiltinTemplates
    /\ registered = EmptyDict
    /\ th = [t \in Threads |-> IdleThread]
    /\ touched = [t \in Threads |-> FALSE]
    /\ ncalls = 0
    /\ served = <<>>
    /\ config_file = DefaultFile
    /\ config_lock = Nothing

CallOverride(t) ==
    /\ th[t].pc = "idle"
    /\ ncalls < MaxCalls
    /\ \E flow \in Flows, sid \in SidArgs, o \in OverrideArgs, lang \in Languages :
        /\ flow = "analyze" => sid = Nothing
        /\ th' = [th EXCEPT ![t] = Enter(flow, <<"q">>, sid, o, Nothing, lang, config)]
    /\ ncalls' = ncalls + 1
    /\ touched' = [touched EXCEPT ![t] = FALSE]
    /\ UNCHANGED <<storeVars, config, envVars, registryVars, served>>

NextOverride ==
    \/ \E t \in Threads : CallOverride(t)
    \/ \E t \in Threads : EnsureSession(t)
    \/ \E t \in Threads : History(t)
    \/ \E t \in Threads : Prompt(t)
    \/ \E t \in Threads : Retrieve(t)
    \/ \E t \in Threads : Model(t)
    \/ \E t \in Threads : Attempt(t)
    \/ \E t \in Threads : Wake(t)
    \/ \E t \in Threads : AddUser(t)
    \/ \E t \in Threads : AddAssistant(t)
    \/ \E t \in Threads : Return(t)

SpecOverride == InitOverride /\ [][NextOverride]_vars

(***************************************************************************)
(* Calls on handlers constructed with and without a code model             *)
(***************************************************************************)
\* instance configurations: local with a code model, local with an empty one,
\* local with none, and cloud (which still carries the local keys)
CodeConfigs ==
    {CfgLocal, [CfgLocal EXCEPT !.local_code_model = ""],
     DictDel(CfgLocal, {"local_code_model"}), CfgCloud("anthropic", "k")}

InitCode ==
    /\ sessions = EmptyDict
    /\ max_history_turns = DEFAULT_MAX_HISTORY_TURNS
    /\ ttl_seconds = SESSION_TTL_SECONDS
    /\ now = 0
    /\ ret = [op |-> "init"]
    /\ appended = EmptyDict
    /\ usedUuids = {}
    /\ lock = Nothing
    /\ config \in CodeConfigs
    /\ env_api_key \in EnvKeys
    /\ templates = BuiltinTemplates
    /\ registered = EmptyDict
    /\ th = [t \in Threads |-> IdleThread]
    /\ touched = [t \in Threads |-> FALSE]
    /\ ncalls = 0
    /\ served = <<>>
    /\ config_file = DefaultFile
    /\ config_lock = Nothing

CallCode(t) ==
    /\ th[t].pc = "idle"
    /\ ncalls < MaxCalls
    /\ \E flow \in Flows, sid \in SidArgs, lang \in Languages :
        /\ flow = "analyze" => sid = Nothing
        /\ th' = [th EXCEPT ![t] = Enter(flow, <<"q">>, sid, Nothing, Nothing, lang, config)]
    /\ ncalls' = ncalls + 1
    /\ touched' = [touched EXCEPT ![t] = FALSE]
    /\ UNCHANGED <<storeVars, config, envVars, registryVars, served>>

NextCode ==
    \/ \E t \in Threads : CallCode(t)
    \/ \E t \in Threads : EnsureSession(t)
    \/ \E t \in Threads : History(t)
    \/ \E t \in Threads : Prompt(t)
    \/ \E t \in Threads : Retrieve(t)
    \/ \E t \in Threads : Model(t)
    \/ \E t \in Threads : Attempt(t)
    \/ \E t \in Threads : Wake(t)
    \/ \E t \in Threads : AddUser(t)
    \/ \E t \in Threads : AddAssistant(t)
    \/ \E t \in Threads : Return(t)

SpecCode == InitCode /\ [][NextCode]_vars

(***************************************************************************)
(* The HTTP layer (main.py).  Every endpoint calls get_agent_handler(),     *)
(* which constructs a new AgentHandler, and with it a new, empty            *)
(* ConversationManager.  Requests are served one at a time here, so         *)
(* sessions is the store of the handler of the request being served.        *)
(***************************************************************************)
Idle == \A t \in Threads : th[t].pc = "idle"

\* POST /chat: handler = get_agent_handler(); handler.chat(prompt, session_id)
\* up to its first step
HttpChat(t) ==
    /\ th[t].pc = "idle"
    /\ ncalls < MaxCalls
    /\ \E p \in Prompts, sid \in SidArgs :
         th' = [th EXCEPT ![t] = Enter("chat", p, sid, Nothing, Nothing, "", config)]
    /\ sessions' = EmptyDict
    /\ appended' = EmptyDict
    /\ ncalls' = ncalls + 1
    /\ touched' = [touched EXCEPT ![t] = FALSE]
    /\ UNCHANGED <<lock, max_history_turns, ttl_seconds, now, ret, usedUuids, config, envVars,
                   registryVars, served>>

\* POST /chat: the response with error becomes an HTTP 500, the other one the
\* body of a 200
HttpChatRespond(t) ==
    /\ th[t].pc = "done"
    /\ LET r == th[t]
           ok == r.outcome = "returned" /\ ValueOf(r.response).error = Nothing
       IN  /\ ret' = [op |-> "POST /chat", status |-> IF ok THEN 200 ELSE 500]
           /\ served' = IF ok /\ SidGiven(r.arg_sid)
                        THEN Append(served, [session_id |-> ValueOf(r.arg_sid),
                                             user |-> r.prompt,
                                             assistant |-> ValueOf(r.raw_response)])
                        ELSE served
    /\ th' = [th EXCEPT ![t] = IdleThread]
    /\ UNCHANGED <<sessions, lock, max_history_turns, ttl_seconds, now, appended, usedUuids, config,
                   envVars, registryVars, touched, ncalls>>

\* GET /sessions/{session_id}: get_agent_handler().get_session_history(session_id)
HttpGetSession ==
    /\ Idle
    /\ \E sid \in SessionIds :
        LET store == EmptyDict
        IN  /\ sessions' = store
            /\ appended' = EmptyDict
            /\ ret' = [op |-> "GET /sessions", sid |-> sid,
                       value |-> get_history(store, sid, Nothing)]
    /\ UNCHANGED <<lock, max_history_turns, ttl_seconds, now, usedUuids, agentVars>>

NotOf(sid, log) ==
    LET keep == {i \in 1..Len(log) : log[i].session_id # sid}
        RECURSIVE Pick(_)
        Pick(i) == IF i > Len(log) THEN <<>>
                   ELSE IF i \in keep THEN <<log[i]>> \o Pick(i + 1) ELSE Pick(i + 1)
    IN  Pick(1)

\* DELETE /sessions/{session_id}: get_agent_handler().clear_session(session_id)
HttpDeleteSession ==
    /\ Idle
    /\ \E sid \in SessionIds :
        LET store == EmptyDict
        IN  /\ sessions' = DictDel(store, {sid})
            /\ appended' = EmptyDict
            /\ ret' = [op |-> "DELETE /sessions", sid |-> sid,
                       value |-> (sid \in DOMAIN store)]
            /\ served' = NotOf(sid, served)
    /\ UNCHANGED <<lock, max_history_turns, ttl_seconds, now, usedUuids, config, envVars,
                   registryVars, th, touched, ncalls>>

NextHttp ==
    \/ \E t \in Threads : HttpChat(t)
    \/ \E t \in Threads : EnsureSession(t)
    \/ \E t \in Threads : History(t)
    \/ \E t \in Threads : Prompt(t)
    \/ \E t \in Threads : Retrieve(t)
    \/ \E t \in Threads : Model(t)
    \/ \E t \in Threads : Attempt(t)
    \/ \E t \in Threads : Wake(t)
    \/ \E t \in Threads : AddUser(t)
    \/ \E t \in Threads : AddAssistant(t)
    \/ \E t \in Threads : HttpChatRespond(t)
    \/ HttpGetSession
    \/ HttpDeleteSession

SpecHttp == InitAgent /\ [][NextHttp]_vars

(***************************************************************************)
(* Concurrent callers of ConversationManager.add_message.  A call is the    *)
(* sequence of the statements of its body; th maps a caller to the locals   *)
(* of its call.                                                             *)
(***************************************************************************)
Callers == {"c1", "c2"}
\* add_message calls started in one behaviour
MaxLockCalls == 4

IdleCaller == [pc |-> "idle", session_id |-> "", role |-> "", content |-> <<>>,
               missing |-> FALSE]

InitLock ==
    /\ sessions = EmptyDict
    /\ max_history_turns = 1
    /\ ttl_seconds = SESSION_TTL_SECONDS
    /\ now = 0
    /\ ret = [op |-> "init"]
    /\ appended = EmptyDict
    /\ usedUuids = {}
    /\ lock = Nothing
    /\ config = EmptyDict
    /\ env_api_key = Nothing
    /\ templates = EmptyDict
    /\ registered = EmptyDict
    /\ th = [c \in Callers |-> IdleCaller]
    /\ touched = EmptyDict
    /\ ncalls = 0
    /\ served = <<>>
    /\ config_file = DefaultFile
    /\ config_lock = Nothing

lockFrame == <<max_history_turns, ttl_seconds, now, ret, usedUuids>>

\* th with the locals of caller c at the next statement
Goto(c, pc) == [th EXCEPT ![c].pc = pc]

\* a caller enters add_message(session_id, role, content)
BeginAdd(c) ==
    /\ th[c].pc = "idle"
    /\ ncalls < MaxLockCalls
    /\ \E sid \in SessionIds, role \in {"user", "system"} :
        th' = [th EXCEPT ![c] = [IdleCaller EXCEPT !.pc = "acquire", !.session_id = sid,
                                                   !.role = role, !.content = <<c>>]]
    /\ ncalls' = ncalls + 1
    /\ UNCHANGED <<storeVars, config, envVars, registryVars, touched, served>>

\* an entry of the with block that does not wait for the lock
LockAcquireNoWait(c) ==
    /\ th[c].pc = "acquire"
    /\ lock' = Some(c)
    /\ th' = Goto(c, "check")
    /\ UNCHANGED <<sessions, appended, lockFrame>>
    /\ UNCHANGED <<config, envVars, registryVars, touched, ncalls, served>>

\* with self._lock: the caller waits until the lock is free and takes it
LockAcquire(c) ==
    /\ th[c].pc = "acquire"
    /\ lock = Nothing
    /\ lock' = Some(c)
    /\ th' = Goto(c, "check")
    /\ UNCHANGED <<sessions, appended, lockFrame>>
    /\ UNCHANGED <<config, envVars, registryVars, touched, ncalls, served>>

\* if session_id not in self._sessions
CheckSession(c) ==
    /\ th[c].pc = "check"
    /\ th' = [th EXCEPT ![c].pc = "create",
                        ![c].missing = th[c].session_id \notin DOMAIN sessions]
    /\ UNCHANGED <<storeVars, config, envVars, registryVars, touched, ncalls, served>>

\* self._sessions[session_id] = _Session(...)
CreateMissing(c) ==
    /\ th[c].pc = "create"
    /\ LET sid == th[c].session_id
       IN  /\ sessions' = IF th[c].missing
                          THEN DictSet(sessions, sid, NewSession(sid, now, max_history_turns))
                          ELSE sessions
           /\ appended' = IF sid \in DOMAIN appended THEN appended
                          ELSE DictSet(appended, sid, <<>>)
    /\ th' = Goto(c, "append")
    /\ UNCHANGED <<lock, max_history_turns, ttl_seconds, now, ret, usedUuids>>
    /\ UNCHANGED <<config, envVars, registryVars, touched, ncalls, served>>

\* session.messages.append(ConversationMessage(role, content))
AppendMessage(c) ==
    /\ th[c].pc = "append"
    /\ LET sid == th[c].session_id
           obj == Len(appended[sid]) + 1
           msg == ConversationMessage(th[c].role, th[c].content, now, obj)
       IN  /\ sid \in DOMAIN sessions
           /\ sessions' = [sessions EXCEPT ![sid].messages = Append(@, msg)]
           /\ appended' = [appended EXCEPT ![sid] = Append(@, msg)]
    /\ th' = Goto(c, "touch")
    /\ UNCHANGED <<lock, max_history_turns, ttl_seconds, now, ret, usedUuids>>
    /\ UNCHANGED <<config, envVars, registryVars, touched, ncalls, served>>

\* session.last_active = time.time()
TouchSession(c) ==
    /\ th[c].pc = "touch"
    /\ sessions' = [sessions EXCEPT ![th[c].session_id].last_active = now]
    /\ th' = Goto(c, "trim")
    /\ UNCHANGED <<lock, max_history_turns, ttl_seconds, now, ret, appended, usedUuids>>
    /\ UNCHANGED <<config, envVars, registryVars, touched, ncalls, served>>

\* if len(session.messages) > session.max_turns * 2: session.messages = ...
TrimSession(c) ==
    /\ th[c].pc = "trim"
    /\ sessions' = [sessions EXCEPT ![th[c].session_id].messages = Trim(@, max_history_turns)]
    /\ th' = Goto(c, "release")
    /\ UNCHANGED <<lock, max_history_turns, ttl_seconds, now, ret, appended, usedUuids>>
    /\ UNCHANGED <<config, envVars, registryVars, touched, ncalls, served>>

\* the end of the with block
LockRelease(c) ==
    /\ th[c].pc = "release"
    /\ lock' = Nothing
    /\ th' = [th EXCEPT ![c] = IdleCaller]
    /\ UNCHANGED <<sessions, appended, lockFrame>>
    /\ UNCHANGED <<config, envVars, registryVars, touched, ncalls, served>>

NextLock ==
    \/ \E c \in Callers : BeginAdd(c)
    \/ \E c \in Callers : LockAcquire(c)
    \/ \E c \in Callers : CheckSession(c)
    \/ \E c \in Callers : CreateMissing(c)
    \/ \E c \in Callers : AppendMessage(c)
    \/ \E c \in Callers : TouchSession(c)
    \/ \E c \in Callers : TrimSession(c)
    \/ \E c \in Callers : LockRelease(c)

SpecLock == InitLock /\ [][NextLock]_vars

(***************************************************************************)
(* cleanup_expired statement by statement, next to callers of add_message  *)
(* and a clock that advances: cleanup_expired reads the clock, then enters *)
(* the lock, then sweeps.                                                  *)
(***************************************************************************)
\* the thread of the external scheduler that calls cleanup_expired
Sweeper == "gc"
\* cleanup_expired calls in one behaviour
MaxSweeps == 1

\* the locals of cleanup_expired: now, and for the history of the call the
\* sessions already over the TTL when the clock was read (seen) and the sessions
\* on which an add_message has returned since then (after)
IdleSweeper == [pc |-> "idle", clock |-> 0, seen |-> {}, after |-> {}, runs |-> 0]

InitSweep ==
    /\ sessions = EmptyDict
    /\ max_history_turns = 1
    /\ ttl_seconds \in 0..MaxTtlArg
    /\ now = 0
    /\ ret = [op |-> "init"]
    /\ appended = EmptyDict
    /\ usedUuids = {}
    /\ lock = Nothing
    /\ config = EmptyDict
    /\ env_api_key = Nothing
    /\ templates = EmptyDict
    /\ registered = EmptyDict
    /\ th = [c \in Callers \cup {Sweeper} |-> IF c = Sweeper THEN IdleSweeper ELSE IdleCaller]
    /\ touched = EmptyDict
    /\ ncalls = 0
    /\ served = <<>>
    /\ config_file = DefaultFile
    /\ config_lock = Nothing

\* now = time.time()
SweepReadClock ==
    /\ th[Sweeper].pc = "idle"
    /\ th[Sweeper].runs < MaxSweeps
    /\ th' = [th EXCEPT ![Sweeper] =
                [pc |-> "acquire", clock |-> now,
                 seen |-> Expired(sessions, now, ttl_seconds), after |-> {},
                 runs |-> th[Sweeper].runs + 1]]
    /\ UNCHANGED <<storeVars, config, envVars, registryVars, touched, ncalls, served>>

\* with self._lock: cleanup_expired waits until the lock is free and takes it
SweepAcquire ==
    /\ th[Sweeper].pc = "acquire"
    /\ lock = Nothing
    /\ lock' = Some(Sweeper)
    /\ th' = Goto(Sweeper, "sweep")
    /\ UNCHANGED <<sessions, appended, lockFrame>>
    /\ UNCHANGED <<config, envVars, registryVars, touched, ncalls, served>>

\* the body of the with block and its end: the expired sessions, by the clock
\* value read before the lock, are deleted
SweepDelete ==
    /\ th[Sweeper].pc = "sweep"
    /\ LET expired == Expired(sessions, th[Sweeper].clock, ttl_seconds)
       IN  /\ sessions' = DictDel(sessions, expired)
           /\ appended' = DictDel(appended, expired)
           /\ ret' = [op |-> "cleanup_expired", at |-> th[Sweeper].clock,
                      value |-> Cardinality(expired), removed |-> expired,
                      seen |-> th[Sweeper].seen, after |-> th[Sweeper].after]
    /\ lock' = Nothing
    /\ th' = Goto(Sweeper, "idle")
    /\ UNCHANGED <<max_history_turns, ttl_seconds, now, usedUuids>>
    /\ UNCHANGED <<config, envVars, registryVars, touched, ncalls, served>>

\* the end of the with block of add_message; the call returns.  For the history
\* of a cleanup_expired that has read the clock, the session is noted.
SweepAddReturn(c) ==
    /\ th[c].pc = "release"
    /\ lock' = Nothing
    /\ th' = [th EXCEPT ![c] = IdleCaller,
                        ![Sweeper].after =
                            IF th[Sweeper].pc = "idle" THEN @
                            ELSE @ \cup {th[c].session_id}]
    /\ UNCHANGED <<sessions, appended, lockFrame>>
    /\ UNCHANGED <<config, envVars, registryVars, touched, ncalls, served>>

NextSweep ==
    \/ Tick
    \/ SweepReadClock
    \/ SweepAcquire
    \/ SweepDelete
    \/ \E c \in Callers : BeginAdd(c)
    \/ \E c \in Callers : LockAcquire(c)
    \/ \E c \in Callers : CheckSession(c)
    \/ \E c \in Callers : CreateMissing(c)
    \/ \E c \in Callers : AppendMessage(c)
    \/ \E c \in Callers : TouchSession(c)
    \/ \E c \in Callers : TrimSession(c)
    \/ \E c \in Callers : SweepAddReturn(c)

SpecSweep == InitSweep /\ [][NextSweep]_vars

(***************************************************************************)
(* Two flows at a time on one session.  Every operation of the store is    *)
(* two steps here: the flow enters the lock of the store, then runs the    *)
(* body of the operation and leaves the lock.                              *)
(***************************************************************************)
ConcThreads == {"t1", "t2"}
\* calls of flows started in one behaviour with two threads
MaxConcCalls == 2
\* the steps of a flow that are operations of the store
StoreSteps == {"session", "history", "add_user", "add_assistant"}

InitConc ==
    /\ sessions = EmptyDict
    /\ max_history_turns = DEFAULT_MAX_HISTORY_TURNS
    /\ ttl_seconds = SESSION_TTL_SECONDS
    /\ now = 0
    /\ ret = [op |-> "init"]
    /\ appended = EmptyDict
    /\ usedUuids = {}
    /\ lock = Nothing
    /\ config = CfgLocal
    /\ env_api_key = Nothing
    /\ templates = BuiltinTemplates
    /\ registered = EmptyDict
    /\ th = [t \in ConcThreads |-> IdleThread]
    /\ touched = [t \in ConcThreads |-> FALSE]
    /\ ncalls = 0
    /\ served = <<>>
    /\ config_file = DefaultFile
    /\ config_lock = Nothing

\* a request handler calls chat or query with the session id of the
\* conversation; the prompt names the thread
ConcCall(t) ==
    /\ th[t].pc = "idle"
    /\ ncalls < MaxConcCalls
    /\ \E flow \in {"chat", "query"} :
        th' = [th EXCEPT ![t] = Enter(flow, <<t>>, Some("s1"), Nothing, Nothing, "", config)]
    /\ ncalls' = ncalls + 1
    /\ UNCHANGED <<storeVars, config, envVars, registryVars, touched, served>>

\* with self._lock, in get_history and add_message: the flow waits until the
\* lock is free and takes it
ConcLock(t) ==
    /\ th[t].pc \in StoreSteps
    /\ lock = Nothing
    /\ lock' = Some(t)
    /\ UNCHANGED <<sessions, appended, lockFrame>>
    /\ UNCHANGED agentVars

\* the body of get_history with a lock that is not given back
ConcHistoryHolding(t) ==
    /\ th[t].pc = "history"
    /\ lock = Some(t)
    /\ LET k == IF th[t].flow = "chat" THEN Nothing ELSE Some(3)
           h == get_history(sessions, ValueOf(th[t].session_id), k)
       IN  th' = [th EXCEPT ![t] = Advance([th[t] EXCEPT !.history = Some(h)])]
    /\ UNCHANGED <<storeVars, config, envVars, registryVars, touched, ncalls, served>>

\* the body of get_history and the end of its with block
ConcHistory(t) ==
    /\ th[t].pc = "history"
    /\ lock = Some(t)
    /\ lock' = Nothing
    /\ LET k == IF th[t].flow = "chat" THEN Nothing ELSE Some(3)
           h == get_history(sessions, ValueOf(th[t].session_id), k)
       IN  th' = [th EXCEPT ![t] = Advance([th[t] EXCEPT !.history = Some(h)])]
    /\ UNCHANGED <<sessions, appended, lockFrame>>
    /\ UNCHANGED <<config, envVars, registryVars, touched, ncalls, served>>

\* the body of add_message and the end of its with block
ConcFlowAdd(t, role, content) ==
    LET sid == ValueOf(th[t].session_id)
        obj == Len(LogOf(sessions, appended, sid)) + 1
    IN  /\ lock = Some(t)
        /\ lock' = Nothing
        /\ sessions' = add_message(sessions, sid, role, content, now, obj, max_history_turns)
        /\ appended' = LogAppend(sessions, appended, sid, role, content, now, obj)
        /\ th' = [th EXCEPT ![t] = Advance(th[t])]
        /\ UNCHANGED lockFrame
        /\ UNCHANGED <<config, envVars, registryVars, touched, ncalls, served>>

ConcAddUser(t) ==
    /\ th[t].pc = "add_user"
    /\ ConcFlowAdd(t, "user", th[t].prompt)

ConcAddAssistant(t) ==
    /\ th[t].pc = "add_assistant"
    /\ ConcFlowAdd(t, "assistant", ValueOf(th[t].raw_response))

NextConc ==
    \/ \E t \in ConcThreads : ConcCall(t)
    \/ \E t \in ConcThreads : ConcLock(t)
    \/ \E t \in ConcThreads : ConcHistory(t)
    \/ \E t \in ConcThreads : Prompt(t)
    \/ \E t \in ConcThreads : Retrieve(t)
    \/ \E t \in ConcThreads : Model(t)
    \/ \E t \in ConcThreads : Attempt(t)
    \/ \E t \in ConcThreads : Wake(t)
    \/ \E t \in ConcThreads : ConcAddUser(t)
    \/ \E t \in ConcThreads : ConcAddAssistant(t)
    \/ \E t \in ConcThreads : Return(t)

SpecConc == InitConc /\ [][NextConc]_vars

(***************************************************************************)
(* InputProcessor called directly: every text over a small alphabet         *)
(***************************************************************************)
\* the longest text passed to sanitize and validate_prompt
MaxTextLen == 5
\* the largest max_length passed to validate_prompt
MaxLengthArg == 2

TextAlphabet == {" ", TAB, NL, NUL, "a"}
Texts == UNION {[1..n -> TextAlphabet] : n \in 0..MaxTextLen}

\* everything but ret, which holds the call under way: its argument in the
\* initial state, its result after the step
pureFrame ==
    <<sessions, max_history_turns, ttl_seconds, now, appended, usedUuids, lock, agentVars>>

InitPure ==
    /\ sessions = EmptyDict
    /\ max_history_turns = DEFAULT_MAX_HISTORY_TURNS
    /\ ttl_seconds = SESSION_TTL_SECONDS
    /\ now = 0
    /\ appended = EmptyDict
    /\ usedUuids = {}
    /\ lock = Nothing
    /\ config = EmptyDict
    /\ env_api_key = Nothing
    /\ templates = EmptyDict
    /\ registered = EmptyDict
    /\ th = EmptyDict
    /\ touched = EmptyDict
    /\ ncalls = 0
    /\ served = <<>>
    /\ config_file = DefaultFile
    /\ config_lock = Nothing

InitInput ==
    /\ InitPure
    /\ ret \in {[op |-> "call", text |-> text] : text \in Texts}

\* InputProcessor.sanitize(text)
SanitizeCall ==
    /\ ret.op = "call"
    /\ LET text == ret.text IN
        /\ ret' = [op |-> "sanitize", text |-> text, value |-> sanitize(text)]
        /\ UNCHANGED pureFrame

\* InputProcessor.validate_prompt(text, max_length)
ValidateCall ==
    /\ ret.op = "call"
    /\ \E text \in {ret.text}, max_length \in 0..MaxLengthArg :
        /\ ret' = [op |-> "validate_prompt", text |-> text, max_length |-> max_length,
                   outcome |-> validate_prompt(text, max_length)]
        /\ UNCHANGED pureFrame

NextInput ==
    \/ SanitizeCall
    \/ ValidateCall

SpecInput == InitInput /\ [][NextInput]_vars

(***************************************************************************)
(* OutputParser called directly: texts put together from pieces             *)
(***************************************************************************)
\* the number of pieces of a raw text
MaxPieces == 3

Pieces ==
    {<<>>, <<" ">>, <<NL>>, <<"a">>, <<"a", " ", NL, "b">>,
     <<BT, BT, BT, "p", "y", NL, "x", NL, BT, BT, BT>>,
     <<BT, BT, BT, NL, "y", BT, BT, BT>>,
     <<BT, BT, BT, " ", NL, " ", BT, BT, BT>>,
     <<BT, BT, BT, "p">>}

RECURSIVE Concat(_)
Concat(parts) == IF parts = <<>> THEN <<>> ELSE Head(parts) \o Concat(Tail(parts))

\* the raw_text arguments: None, or a text
RawTexts == {Nothing} \cup {Some(Concat(ps)) : ps \in [1..MaxPieces -> Pieces]}

\* OutputParser.parse(raw_text): None is false as the empty text is, and
\* raw is raw_text or ""
InitParse ==
    /\ InitPure
    /\ ret \in {[op |-> "call", raw_text |-> raw_text] : raw_text \in RawTexts}

ParseCall ==
    /\ ret.op = "call"
    /\ \E raw_text \in {ret.raw_text} :
        /\ ret' = [op |-> "parse", raw_text |-> raw_text,
                   value |-> parse(IF raw_text = Nothing THEN <<>> ELSE ValueOf(raw_text))]
        /\ UNCHANGED pureFrame

\* OutputParser.extract_first_code_block(raw_text)
ExtractCall ==
    /\ ret.op = "call"
    /\ \E raw_text \in {ret.raw_text} \ {Nothing} :
        /\ ret' = [op |-> "extract_first_code_block", raw_text |-> raw_text,
                   value |-> extract_first_code_block(ValueOf(raw_text))]
        /\ UNCHANGED pureFrame

NextParse ==
    \/ ParseCall
    \/ ExtractCall

SpecParse == InitParse /\ [][NextParse]_vars

(***************************************************************************)
(* The prompt registry driven directly by its callers.  _templates is a     *)
(* class attribute: one registry for the process.                           *)
(***************************************************************************)
\* the names callers register and ask for: built-in names and names of their own
PromptNames == {"chat", "code_generator", "test_custom", "nonexistent"}
\* the templates callers register
RegisteredTemplates == {Template("Hello", "plain"), Template("Hello {name}", "other")}

\* cls._templates.setdefault(name, template): a name that is taken keeps its template
register_prompt_if_absent(tpls, name, template) ==
    IF name \in DOMAIN tpls THEN tpls ELSE DictSet(tpls, name, template)

\* cls._templates[name] = template
register_prompt(tpls, name, template) == DictSet(tpls, name, template)

\* list(cls._templates.keys()), as the set of its entries
list_prompts(tpls) == DOMAIN tpls

InitRegistry ==
    /\ sessions = EmptyDict
    /\ max_history_turns = DEFAULT_MAX_HISTORY_TURNS
    /\ ttl_seconds = SESSION_TTL_SECONDS
    /\ now = 0
    /\ ret = [op |-> "init"]
    /\ appended = EmptyDict
    /\ usedUuids = {}
    /\ lock = Nothing
    /\ config = EmptyDict
    /\ env_api_key = Nothing
    /\ templates = BuiltinTemplates
    /\ registered = EmptyDict
    /\ th = EmptyDict
    /\ touched = EmptyDict
    /\ ncalls = 0
    /\ served = <<>>
    /\ config_file = DefaultFile
    /\ config_lock = Nothing

registryFrame ==
    <<sessions, max_history_turns, ttl_seconds, now, appended, usedUuids, lock,
      config, envVars, th, touched, ncalls, served>>

RegistryRegister ==
    \E name \in PromptNames \ {"nonexistent"}, tpl \in RegisteredTemplates :
        /\ templates' = register_prompt(templates, name, tpl)
        /\ registered' = DictSet(registered, name, tpl)
        /\ ret' = [op |-> "register_prompt", name |-> name]
        /\ UNCHANGED registryFrame

RegistryGet ==
    \E name \in PromptNames :
        /\ ret' = [op |-> "get_prompt", name |-> name,
                   value |-> get_prompt(templates, name, Nothing)]
        /\ UNCHANGED <<registryFrame, registryVars>>

RegistryList ==
    /\ ret' = [op |-> "list_prompts", value |-> list_prompts(templates)]
    /\ UNCHANGED <<registryFrame, registryVars>>

NextRegistry ==
    \/ RegistryRegister
    \/ RegistryGet
    \/ RegistryList

SpecRegistry == InitRegistry /\ [][NextRegistry]_vars

(***************************************************************************)
(* The configuration file (main.py): load_config and save_config, statement *)
(* by statement, called by several threads.  _config_lock is a              *)
(* threading.Lock: it is not reentrant.                                     *)
(***************************************************************************)
\* calls of load_config and save_config in one behaviour
MaxConfigCalls == 3

DEFAULT_CONFIG == DefaultFile.value

\* what CONFIG_FILE may hold when the server starts: what save_config wrote, an
\* object with some keys only, JSON that is not an object, text that is not JSON
ConfigFiles ==
    {DefaultFile,
     [kind |-> "object", value |-> [mode |-> "cloud", theme |-> "dark"]],
     [kind |-> "other"],
     [kind |-> "corrupt"]}

\* the configurations POST /config saves
SavedConfigs == {[DEFAULT_CONFIG EXCEPT !.mode = "cloud"]}

\* for key in DEFAULT_CONFIG: if key not in cfg: cfg[key] = DEFAULT_CONFIG[key]
FillDefaults(cfg) ==
    [k \in (DOMAIN cfg) \cup (DOMAIN DEFAULT_CONFIG) |->
        IF k \in DOMAIN cfg THEN cfg[k] ELSE DEFAULT_CONFIG[k]]

IdleConfigCaller ==
    [pc |-> "idle", op |-> "", cfg |-> EmptyDict, nested |-> FALSE,
     result |-> Nothing, raised |-> FALSE]

InitConfig ==
    /\ sessions = EmptyDict
    /\ max_history_turns = DEFAULT_MAX_HISTORY_TURNS
    /\ ttl_seconds = SESSION_TTL_SECONDS
    /\ now = 0
    /\ ret = [op |-> "init"]
    /\ appended = EmptyDict
    /\ usedUuids = {}
    /\ lock = Nothing
    /\ config = EmptyDict
    /\ env_api_key = Nothing
    /\ templates = EmptyDict
    /\ registered = EmptyDict
    /\ th = [c \in Callers |-> IdleConfigCaller]
    /\ touched = EmptyDict
    /\ ncalls = 0
    /\ served = <<>>
    /\ config_file \in ConfigFiles
    /\ config_lock = Nothing

configFrame == <<storeVars, config, env_api_key, registryVars, touched, served>>

BeginLoad(c) ==
    /\ th[c].pc = "idle"
    /\ ncalls < MaxConfigCalls
    /\ th' = [th EXCEPT ![c] = [IdleConfigCaller EXCEPT !.pc = "load_acquire",
                                                        !.op = "load_config"]]
    /\ ncalls' = ncalls + 1
    /\ UNCHANGED <<configFrame, config_file, config_lock>>

BeginSave(c) ==
    /\ th[c].pc = "idle"
    /\ ncalls < MaxConfigCalls
    /\ \E cfg \in SavedConfigs :
        th' = [th EXCEPT ![c] = [IdleConfigCaller EXCEPT !.pc = "save_acquire",
                                                         !.op = "save_config",
                                                         !.cfg = cfg]]
    /\ ncalls' = ncalls + 1
    /\ UNCHANGED <<configFrame, config_file, config_lock>>

\* load_config: with _config_lock
LoadAcquire(c) ==
    /\ th[c].pc = "load_acquire"
    /\ config_lock = Nothing
    /\ config_lock' = Some(c)
    /\ th' = [th EXCEPT ![c].pc = "load_read"]
    /\ UNCHANGED <<configFrame, config_file, ncalls>>

\* the body of load_config under the lock: read_text, json.loads, the loop
\* over the default keys and the return (which releases the lock), or the
\* handler of JSONDecodeError up to its call of save_config (lock still held)
LoadRead(c) ==
    /\ th[c].pc = "load_read"
    /\ IF config_file.kind = "corrupt"
       THEN /\ th' = [th EXCEPT ![c].pc = "save_acquire", ![c].nested = TRUE,
                                ![c].cfg = DEFAULT_CONFIG]
            /\ UNCHANGED config_lock
       ELSE /\ th' = [th EXCEPT ![c].pc = "done",
                                ![c].result =
                                    IF config_file.kind = "object"
                                    THEN Some(FillDefaults(config_file.value))
                                    ELSE Some(DEFAULT_CONFIG)]
            /\ config_lock' = Nothing
    /\ UNCHANGED <<configFrame, config_file, ncalls>>

\* save_config: with _config_lock
SaveAcquire(c) ==
    /\ th[c].pc = "save_acquire"
    /\ config_lock = Nothing
    /\ config_lock' = Some(c)
    /\ th' = [th EXCEPT ![c].pc = "save_write"]
    /\ UNCHANGED <<configFrame, config_file, ncalls>>

\* the body of save_config under the lock: the write of the temporary file and
\* its rename, or the exception of a write that failed; the lock is released.
\* Called from load_config, the defaults are what load_config then returns.
SaveWrite(c) ==
    /\ th[c].pc = "save_write"
    /\ \E ok \in BOOLEAN :
        /\ config_file' = IF ok THEN [kind |-> "object", value |-> th[c].cfg] ELSE config_file
        /\ th' = [th EXCEPT ![c].pc = "done",
                            ![c].raised = ~ok,
                            ![c].result = IF ok /\ th[c].nested THEN Some(DEFAULT_CONFIG)
                                          ELSE Nothing]
    /\ config_lock' = Nothing
    /\ UNCHANGED <<configFrame, ncalls>>

\* the caller has the result
ConfigReturn(c) ==
    /\ th[c].pc = "done"
    /\ th' = [th EXCEPT ![c] = IdleConfigCaller]
    /\ UNCHANGED <<configFrame, config_file, config_lock, ncalls>>

\* the steps of a call under way
ConfigStep(c) ==
    \/ LoadAcquire(c)
    \/ LoadRead(c)
    \/ SaveAcquire(c)
    \/ SaveWrite(c)
    \/ ConfigReturn(c)

NextConfig ==
    \/ \E c \in Callers : BeginLoad(c)
    \/ \E c \in Callers : BeginSave(c)
    \/ \E c \in Callers : ConfigStep(c)

\* a thread inside a call is scheduled again and again
SpecConfig ==
    InitConfig /\ [][NextConfig]_vars /\ \A c \in Callers : WF_vars(ConfigStep(c))

(***************************************************************************)
(* POST /config (main.py): the handler loads the configuration, updates    *)
(* the dict and saves it.  Two requests are served at the same time, as    *)
(* they are by two workers or two threads of the server; load_config and   *)
(* save_config each take _config_lock for their own body.                  *)
(***************************************************************************)
\* req.model_dump(exclude_none=True) of the requests: each sets one key
UpdateBodies == {[mode |-> "cloud"], [cloud_model |-> "gpt-4"], [api_key |-> "k"]}

\* cfg.update(update_data)
DictUpdate(cfg, update_data) ==
    [k \in (DOMAIN cfg) \cup (DOMAIN update_data) |->
        IF k \in DOMAIN update_data THEN update_data[k] ELSE cfg[k]]

IdleRequest == [pc |-> "idle", body |-> EmptyDict, cfg |-> EmptyDict, raised |-> FALSE]

\* CONFIG_FILE holds an object when the requests arrive
InitUpdate ==
    /\ sessions = EmptyDict
    /\ max_history_turns = DEFAULT_MAX_HISTORY_TURNS
    /\ ttl_seconds = SESSION_TTL_SECONDS
    /\ now = 0
    /\ ret = [op |-> "init"]
    /\ appended = EmptyDict
    /\ usedUuids = {}
    /\ lock = Nothing
    /\ config = EmptyDict
    /\ env_api_key = Nothing
    /\ templates = EmptyDict
    /\ registered = EmptyDict
    /\ th = [c \in Callers |-> IdleRequest]
    /\ touched = EmptyDict
    /\ ncalls = 0
    /\ served = <<>>
    /\ config_file \in {f \in ConfigFiles : f.kind = "object"}
    /\ config_lock = Nothing

\* a request arrives; each worker serves one
PostConfig(c) ==
    /\ th[c].pc = "idle"
    /\ \E body \in UpdateBodies :
        th' = [th EXCEPT ![c] = [IdleRequest EXCEPT !.pc = "load_acquire", !.body = body]]
    /\ ncalls' = ncalls + 1
    /\ UNCHANGED <<configFrame, config_file, config_lock>>

\* cfg = load_config(): with _config_lock
UpdateLoadAcquire(c) ==
    /\ th[c].pc = "load_acquire"
    /\ config_lock = Nothing
    /\ config_lock' = Some(c)
    /\ th' = [th EXCEPT ![c].pc = "load_read"]
    /\ UNCHANGED <<configFrame, config_file, ncalls>>

\* the body of load_config on a file that holds an object, and its return
UpdateLoadRead(c) ==
    /\ th[c].pc = "load_read"
    /\ config_file.kind = "object"
    /\ th' = [th EXCEPT ![c].pc = "update", ![c].cfg = FillDefaults(config_file.value)]
    /\ config_lock' = Nothing
    /\ UNCHANGED <<configFrame, config_file, ncalls>>

\* the validation of the body (the bodies here pass it) and cfg.update(update_data)
UpdateApply(c) ==
    /\ th[c].pc = "update"
    /\ th' = [th EXCEPT ![c].pc = "save_acquire",
                        ![c].cfg = DictUpdate(th[c].cfg, th[c].body)]
    /\ UNCHANGED <<configFrame, config_file, config_lock, ncalls>>

\* save_config(cfg): with _config_lock
UpdateSaveAcquire(c) ==
    /\ th[c].pc = "save_acquire"
    /\ config_lock = Nothing
    /\ config_lock' = Some(c)
    /\ th' = [th EXCEPT ![c].pc = "save_write"]
    /\ UNCHANGED <<configFrame, config_file, ncalls>>

\* the body of save_config under the lock: the temporary file is written and
\* renamed to CONFIG_FILE, or the write fails and the exception becomes the
\* 500 response; the lock is released and the request is answered
UpdateSaveWrite(c) ==
    /\ th[c].pc = "save_write"
    /\ \E ok \in BOOLEAN :
        /\ config_file' = IF ok THEN [kind |-> "object", value |-> th[c].cfg] ELSE config_file
        /\ th' = [th EXCEPT ![c].pc = "done", ![c].raised = ~ok]
    /\ config_lock' = Nothing
    /\ UNCHANGED <<configFrame, ncalls>>

NextUpdate ==
    \/ \E c \in Callers : PostConfig(c)
    \/ \E c \in Callers : UpdateLoadAcquire(c)
    \/ \E c \in Callers : UpdateLoadRead(c)
    \/ \E c \in Callers : UpdateApply(c)
    \/ \E c \in Callers : UpdateSaveAcquire(c)
    \/ \E c \in Callers : UpdateSaveWrite(c)

SpecUpdate == InitUpdate /\ [][NextUpdate]_vars

(***************************************************************************)
(* Claims about the conversation store                                     *)
(***************************************************************************)
NonSystemOf(msgs) == SelectSeq(msgs, NotSystem)
SystemOf(msgs) == SelectSeq(msgs, IsSystem)

\* C1: after every add_message, a session holds at most 2*max_turns non-system
\* messages, and they are the most recent 2*max_turns non-system messages
\* appended to it (all of them when fewer were appended).
C1_TrimKeepsMostRecent ==
    \A sid \in DOMAIN sessions :
        LET s == sessions[sid]
            kept == NonSystemOf(s.messages)
        IN  /\ Len(kept) <= 2 * s.max_turns
            /\ kept = LastK(NonSystemOf(appended[sid]), 2 * s.max_turns)

\* the part of C1 the code keeps: the bound, and the kept non-system messages
\* are a suffix of the appended ones
C1_BoundAndSuffix ==
    \A sid \in DOMAIN sessions :
        LET s == sessions[sid]
            kept == NonSystemOf(s.messages)
        IN  /\ Len(kept) <= 2 * s.max_turns
            /\ kept = LastK(NonSystemOf(appended[sid]), Len(kept))

\* C2: no add_message removes a system message: the system messages of a live
\* session are all the system messages appended to it since it was created.
C2_SystemMessagesRetained ==
    \A sid \in DOMAIN sessions :
        SystemOf(sessions[sid].messages) = SystemOf(appended[sid])

\* a session whose history was trimmed and that holds a system message
\* appended before a non-system message that the trim dropped
C2_Witness ==
    \E sid \in DOMAIN sessions :
        /\ Len(sessions[sid].messages) < Len(appended[sid])
        /\ \E i, j \in 1..Len(appended[sid]) :
              /\ i < j
              /\ appended[sid][i].role = "system"
              /\ appended[sid][j].role # "system"
              /\ \A m \in 1..Len(sessions[sid].messages) :
                    sessions[sid].messages[m].obj # appended[sid][j].obj

\* C3: the messages of a session are held in the order they were appended.
C3_AppendOrder ==
    \A sid \in DOMAIN sessions :
        \A i, j \in 1..Len(sessions[sid].messages) :
            i < j => sessions[sid].messages[i].obj < sessions[sid].messages[j].obj

\* C4: get_history of a live session returns all n messages when max_turns is
\* omitted and the last min(2k, n) messages when max_turns = k >= 0 is given.
C4_GetHistoryResult ==
    (ret.op = "get_history" /\ ret.sid \in DOMAIN sessions) =>
        LET all == ToDicts(sessions[ret.sid].messages)
        IN  IF ret.k = Nothing
            THEN ret.value = all
            ELSE ret.value = LastK(all, Min(2 * ValueOf(ret.k), Len(all)))

\* the same with max_turns = 0 left out: what the code does for k >= 1
C4_GetHistoryPositive ==
    (ret.op = "get_history" /\ ret.sid \in DOMAIN sessions /\ ret.k # Some(0)) =>
        LET all == ToDicts(sessions[ret.sid].messages)
        IN  IF ret.k = Nothing
            THEN ret.value = all
            ELSE ret.value = LastK(all, Min(2 * ValueOf(ret.k), Len(all)))


(***************************************************************************)
(* Claims about the flows                                                  *)
(***************************************************************************)
SessionFlows == {"query", "chat", "generate_code"}

\* a call has come to its end and returned a response
Returned(t) == th[t].pc = "done" /\ th[t].outcome = "returned" /\ th[t].response # Nothing
ErrorOf(t) == ValueOf(th[t].response).error

\* the last two entries of the history of the session are the validated prompt
\* and the text the backend returned
EndsWithExchange(t) ==
    LET h == get_history(sessions, ValueOf(th[t].arg_sid), Nothing)
        n == Len(h)
        r == th[t]
    IN  /\ n >= 2
        /\ h[n - 1].role = "user"
        /\ h[n - 1].content = sanitize(r.arg_prompt)
        /\ h[n].role = "assistant"
        /\ r.calls # <<>>
        /\ ~r.calls[Len(r.calls)].raised
        /\ h[n].content = r.calls[Len(r.calls)].value

C5_Exchange ==
    \A t \in Threads :
        (/\ Returned(t)
         /\ ErrorOf(t) = Nothing
         /\ th[t].flow \in SessionFlows
         /\ SidGiven(th[t].arg_sid)
         /\ ~touched[t]) => EndsWithExchange(t)

C5_AnalyzeStep ==
    \A t \in Threads :
        (th'[t] # th[t] /\ (th[t].flow = "analyze" \/ th'[t].flow = "analyze"))
            => sessions' = sessions

\* C5: when query, chat or generate_code is called with a session id and returns
\* a response without error, and no other caller touched the session during the
\* call, the history of the session ends with the validated prompt as a user
\* message followed by the raw model output as an assistant message; no step of
\* analyze changes the sessions.
C5_HistoryEndsWithExchange == []C5_Exchange /\ [][C5_AnalyzeStep]_vars

\* a second call on a session that already holds an exchange has returned
C5_Witness ==
    \E t \in Threads :
        /\ Returned(t) /\ ErrorOf(t) = Nothing /\ ~touched[t]
        /\ th[t].flow = "query" /\ th[t].arg_sid = Some("s1")
        /\ th[t].arg_prompt # sanitize(th[t].arg_prompt)
        /\ Len(get_history(sessions, "s1", Nothing)) = 4

\* C7: a flow that has come to its end has returned a response; it has not let
\* an exception out, whichever step failed.
C7_NeverPropagates ==
    \A t \in Threads :
        th[t].pc = "done" => (/\ th[t].outcome = "returned"
                              /\ th[t].response # Nothing
                              /\ th[t].exc = Nothing)

\* a flow returned after its model invocation had used up its attempts
C7_Witness ==
    \E t \in Threads :
        /\ Returned(t)
        /\ th[t].failed_at = "invoke"
        /\ ErrorOf(t) # Nothing

\* C8: a response returned by a flow with error set is the error response of
\* that error: one error section and every other field at its default.
C8_ErrorResponseShape ==
    \A t \in Threads :
        (Returned(t) /\ ErrorOf(t) # Nothing) =>
            ValueOf(th[t].response) = ErrorResponse(ValueOf(ErrorOf(t)))

\* C9: an invocation makes at most 3 attempts; no attempt follows one that
\* succeeded and the text returned is that of the attempt that succeeded; when
\* the 3 attempts raised, the flow fails with the invocation-failed error that
\* carries the error of the third attempt.
C9_AtMostThreeAttempts ==
    \A t \in Threads :
        LET r == th[t]
            n == Len(r.calls)
        IN  /\ n <= 3
            /\ \A i \in 1..(n - 1) : r.calls[i].raised
            /\ r.raw_response # Nothing =>
                   (n >= 1 /\ ~r.calls[n].raised /\ r.raw_response = Some(r.calls[n].value))
            /\ (n >= 1 /\ ~r.calls[n].raised) => r.raw_response = Some(r.calls[n].value)
            /\ (n = 3 /\ r.calls[3].raised) =>
                   (/\ Returned(t)
                    /\ r.failed_at = "invoke"
                    /\ ErrorOf(t) = Some(<<"AI model invocation failed after 3 attempts: ">>
                                            \o r.calls[3].exc.msg))
            /\ (r.pc = "done" /\ r.failed_at = "invoke") => (n = 3 /\ r.calls[3].raised)

\* the three attempts raised, the third with another error than the first
C9_Witness ==
    \E t \in Threads :
        /\ Returned(t)
        /\ Len(th[t].calls) = 3
        /\ th[t].calls[3].raised
        /\ th[t].calls[1].exc # th[t].calls[3].exc

\* cloud mode with a provider that is not known, or with no credential
NoCloudBackend(cfg, env) ==
    /\ Get(cfg, "mode", "local") = "cloud"
    /\ \/ Lower(Get(cfg, "cloud_provider", "openai")) \notin CLOUD_PROVIDERS
       \/ (Get(cfg, "api_key", "") = "" /\ env = Nothing)

\* C10: in cloud mode with an unrecognized provider, or with no credential in the
\* configuration and none in the environment, a flow makes no attempt of the
\* underlying call and no retry wait, and it returns an error response.
C10_NoAttemptWithoutBackend ==
    \A t \in Threads :
        (Running(t) /\ NoCloudBackend(Resolve(th[t].arg_cfg, config), env_api_key)) =>
            (/\ th[t].calls = <<>>
             /\ th[t].waits = <<>>
             /\ th[t].pc = "done" => (Returned(t) /\ ErrorOf(t) # Nothing))

\* a flow came to the resolution of the backend with a known provider and no
\* credential, and returned
C10_Witness ==
    \E t \in Threads :
        /\ Returned(t)
        /\ th[t].failed_at = "model"
        /\ Lower(Get(th[t].cfg, "cloud_provider", "openai")) \in CLOUD_PROVIDERS
        /\ NoCloudBackend(th[t].cfg, env_api_key)

\* the exchange e is in the messages, its assistant message next to its user message
HasExchange(msgs, e) ==
    \E j \in 1..(Len(msgs) - 1) :
        /\ msgs[j].role = "user" /\ msgs[j].content = e.user
        /\ msgs[j + 1].role = "assistant" /\ msgs[j + 1].content = e.assistant

\* C6: when a /chat request with session id S was answered with success and a
\* later /chat request carries the same S, with no clear and no expiry in
\* between, the model invocation of the later request receives the user and
\* assistant messages of the earlier one as history, and GET /sessions/S returns
\* them.
C6_ContextAcrossRequests ==
    /\ \A t \in Threads :
        (th[t].pc = "invoke" /\ th[t].flow = "chat" /\ SidGiven(th[t].arg_sid)) =>
            \A i \in 1..Len(served) :
                served[i].session_id = ValueOf(th[t].arg_sid) =>
                    HasExchange(Messages(th[t]), served[i])
    /\ ret.op = "GET /sessions" =>
            \A i \in 1..Len(served) :
                served[i].session_id = ret.sid => HasExchange(ret.value, served[i])

\* a mode that is neither local nor cloud
UnsupportedMode(cfg) == Get(cfg, "mode", "local") \notin {"local", "cloud"}

\* C11: with a configuration whose mode is neither local nor cloud every flow
\* returns an error response, with no backend resolved and no attempt made.
C11_UnsupportedModeFails ==
    \A t \in Threads :
        (Running(t) /\ UnsupportedMode(Resolve(th[t].arg_cfg, config))) =>
            (/\ th[t].model = Nothing
             /\ th[t].calls = <<>>
             /\ th[t].waits = <<>>
             /\ th[t].pc = "done" => (Returned(t) /\ ErrorOf(t) # Nothing))

\* the input of the call is empty after sanitizing, or longer than its ceiling
InvalidInput(t) ==
    LET cleaned == sanitize(th[t].arg_prompt)
        ceiling == IF th[t].flow = "analyze" THEN 100000 ELSE 50000
    IN  cleaned = <<>> \/ Len(cleaned) > ceiling

\* C12: a flow whose input fails validation returns an error response; it has
\* resolved no backend, made no attempt of the model call and no retry wait.
C12_ValidationShortCircuits ==
    \A t \in Threads :
        (Running(t) /\ InvalidInput(t)) =>
            (/\ Returned(t)
             /\ ErrorOf(t) # Nothing
             /\ th[t].failed_at = "validate"
             /\ th[t].model = Nothing
             /\ th[t].calls = <<>>
             /\ th[t].waits = <<>>
             /\ th[t].attempt = 0)

\* query has returned for a prompt one character over the ceiling
C12_Witness ==
    \E t \in Threads :
        /\ Returned(t)
        /\ th[t].flow = "query"
        /\ Len(th[t].arg_prompt) = 50001
        /\ ErrorOf(t) = Some(Str("Prompt too long."))

\* the retrieval of the call failed
RetrievalFailed(t) == Running(t) /\ th[t].retrieval = "fail"

C13_Fatal ==
    \A t \in Threads :
        (RetrievalFailed(t) /\ th[t].flow = "query") =>
            (/\ Returned(t)
             /\ ErrorOf(t) # Nothing
             /\ th[t].failed_at = "retrieve"
             /\ th[t].model = Nothing
             /\ th[t].calls = <<>>)

C13_NoAppend ==
    \A t \in Threads :
        (/\ th'[t] # th[t]
         /\ \/ (th[t].flow = "query" /\ th[t].retrieval = "fail")
            \/ (th'[t].flow = "query" /\ th'[t].retrieval = "fail"))
            => sessions' = sessions

\* C13: when the vector store fails in query, query returns an error response,
\* resolves and invokes no model, and appends nothing to the session.
C13_QueryRetrievalFatal == []C13_Fatal /\ [][C13_NoAppend]_vars

\* query with a session id returned after its retrieval had failed
C13_Witness ==
    \E t \in Threads :
        /\ Returned(t) /\ RetrievalFailed(t)
        /\ th[t].flow = "query" /\ th[t].arg_sid = Some("s1")

\* the user message of chat and generate_code when there are no passages
PlainUserMessage(r) ==
    IF r.flow = "chat" THEN r.prompt
    ELSE <<"Generate ", r.language, " code for the following:\n\n">> \o r.prompt

C14_Degraded ==
    \A t \in Threads :
        (RetrievalFailed(t) /\ th[t].flow \in {"chat", "generate_code"}) =>
            (/\ th[t].failed_at # "retrieve"
             /\ th[t].docs = <<>>
             /\ th[t].pc = "invoke" =>
                    LET msgs == Messages(th[t])
                    IN  msgs[Len(msgs)] = [role |-> "user", content |-> PlainUserMessage(th[t])]
             /\ (th[t].pc = "done" /\ th[t].failed_at = "") => th[t].calls # <<>>)

C14_AsNoPassages ==
    \A t \in Threads :
        (/\ th[t].pc = "retrieve"
         /\ th[t].flow \in {"chat", "generate_code"}
         /\ th'[t] # th[t]
         /\ th'[t].retrieval = "fail")
            => [th'[t] EXCEPT !.retrieval = "empty"] = Retrieved(th[t], "empty")

\* C14: in chat and generate_code a failure of the vector store is swallowed:
\* the flow goes on as it does when the retrieval returns no passages, the model
\* is invoked with a user message that carries no retrieved context, and the
\* flow can still succeed.
C14_RetrievalFailureSwallowed == []C14_Degraded /\ [][C14_AsNoPassages]_vars

\* chat returned a response without error after its retrieval had failed
C14_Witness ==
    \E t \in Threads :
        /\ Returned(t) /\ RetrievalFailed(t)
        /\ th[t].flow = "chat"
        /\ ErrorOf(t) = Nothing

\* C15: in analyze called without a context a failure of the vector store is
\* swallowed: the flow goes on with no context and invokes the model instead of
\* returning an error response.
C15_AnalyzeRetrievalSwallowed ==
    \A t \in Threads :
        (RetrievalFailed(t) /\ th[t].flow = "analyze") =>
            (/\ th[t].failed_at # "retrieve"
             /\ (th[t].pc = "done" /\ th[t].failed_at = "") => th[t].calls # <<>>)

\* the messages of a session after the add_message calls of the log, made one
\* after the other
RECURSIVE Replay(_, _)
Replay(log, turns) ==
    IF log = <<>> THEN <<>>
    ELSE Trim(Append(Replay(SubSeq(log, 1, Len(log) - 1), turns), log[Len(log)]), turns)

\* the caller has not yet appended the message of its call
BeforeAppend(c) == th[c].pc \in {"acquire", "check", "create", "append"}

\* C16: concurrent add_message calls on a session are serialized: in every state
\* in which the lock is free, the messages of the session are those of the calls
\* made one after the other in the order in which they appended, every call that
\* has appended is in that order once, and the session holds at most
\* 2*max_turns non-system messages.
C16_AddMessageSerialized ==
    /\ SumLen(appended, DOMAIN appended)
            = ncalls - Cardinality({c \in Callers : BeforeAppend(c)})
    /\ lock = Nothing =>
        \A sid \in DOMAIN sessions :
            /\ sessions[sid].messages = Replay(appended[sid], sessions[sid].max_turns)
            /\ Len(NonSystemOf(sessions[sid].messages)) <= 2 * sessions[sid].max_turns

\* a caller waits for the lock while another caller is between its append and
\* its trim, the session holding more messages than the bound
C16_Witness ==
    \E c1, c2 \in Callers :
        /\ th[c1].pc = "trim"
        /\ th[c2].pc = "acquire"
        /\ th[c1].session_id = th[c2].session_id
        /\ Len(NonSystemOf(sessions[th[c1].session_id].messages))
                > 2 * sessions[th[c1].session_id].max_turns

\* a step that is a call of the named store operation (the clock stands still
\* during a call; every operation records itself in ret)
StoreCall(op) == ret'.op = op /\ now' = now

\* C17: cleanup_expired removes exactly the sessions with now - last_active > ttl,
\* returns how many it removed, leaves every other session as it was, and
\* get_history of a removed session is then empty.
C17_CleanupRemovesExactlyExpired ==
    [][StoreCall("cleanup_expired") =>
        LET old == {sid \in DOMAIN sessions :
                        now - sessions[sid].last_active > ttl_seconds}
        IN  /\ DOMAIN sessions' = DOMAIN sessions \ old
            /\ ret'.value = Cardinality(old)
            /\ \A sid \in DOMAIN sessions' : sessions'[sid] = sessions[sid]
            /\ \A sid \in old : get_history(sessions', sid, Nothing) = <<>>]_vars

\* a store with ttl 0: cleanup removed one session and kept one that holds a
\* message received at the time of the call
C17_Witness ==
    /\ ret.op = "cleanup_expired"
    /\ ret.value = 1
    /\ ttl_seconds = 0
    /\ now > 0
    /\ \E sid \in DOMAIN sessions : Len(sessions[sid].messages) > 0

\* C18: clear_session(id) returns true exactly when the session exists and
\* deletes it; a second clear of the same id returns false; get_history(id)
\* is empty afterwards; no other session is affected.
C18_ClearSessionOnce ==
    [][StoreCall("clear_session") =>
        LET sid == ret'.sid
        IN  /\ ret'.value = (sid \in DOMAIN sessions)
            /\ DOMAIN sessions' = DOMAIN sessions \ {sid}
            /\ \A o \in DOMAIN sessions' : sessions'[o] = sessions[o]
            /\ get_history(sessions', sid, Nothing) = <<>>
            /\ (ret.op = "clear_session" /\ ret.sid = sid) => ret'.value = FALSE]_vars

\* a clear that returned true while another session with a message stays
C18_Witness ==
    /\ ret.op = "clear_session"
    /\ ret.value = TRUE
    /\ ret.sid \notin DOMAIN sessions
    /\ \E o \in DOMAIN sessions : Len(sessions[o].messages) > 0

\* the message the add_message call of this step appended
AddedMessage == appended'[ret'.sid][Len(appended'[ret'.sid])]

\* C19 as stated: add_message on an id with no live session creates the
\* session and the history is exactly that one message; every add_message
\* sets last_active to the time of the call.
C19_AddCreatesAndHoldsMessage ==
    [][StoreCall("add_message") =>
        LET sid == ret'.sid
        IN  /\ sid \notin DOMAIN sessions =>
                /\ sid \in DOMAIN sessions'
                /\ get_history(sessions', sid, Nothing) = <<to_dict(AddedMessage)>>
            /\ sessions'[sid].last_active = now]_vars

\* C19 amended: the same, for a store with max_history_turns >= 1 or a system
\* message (with max_history_turns 0 the trim of the same call removes a
\* non-system message and the history of the new session is empty).
C19_AddCreatesAndHoldsRetainedMessage ==
    [][StoreCall("add_message") =>
        LET sid == ret'.sid
        IN  /\ sid \notin DOMAIN sessions =>
                /\ sid \in DOMAIN sessions'
                /\ (max_history_turns >= 1 \/ AddedMessage.role = "system") =>
                    get_history(sessions', sid, Nothing) = <<to_dict(AddedMessage)>>
                /\ (max_history_turns = 0 /\ AddedMessage.role # "system") =>
                    get_history(sessions', sid, Nothing) = <<>>
            /\ sessions'[sid].last_active = now]_vars

\* add_message created a session after the clock had advanced, and the
\* session holds the one message
C19_Witness ==
    /\ ret.op = "add_message"
    /\ now > 0
    /\ max_history_turns >= 1
    /\ ret.sid \in DOMAIN sessions
    /\ sessions[ret.sid].created_at = now
    /\ sessions[ret.sid].last_active = now
    /\ Len(sessions[ret.sid].messages) = 1
    /\ Len(appended[ret.sid]) = 1

\* C20: get_history on an id with no live session returns the empty list and
\* creates nothing: the sessions are what they were.
C20_GetHistoryUnknownIsEmpty ==
    [][StoreCall("get_history") =>
        /\ sessions' = sessions
        /\ ret'.sid \notin DOMAIN sessions => ret'.value = <<>>]_vars

\* get_history of an id that is not live returned the empty list while
\* another session is live
C20_Witness ==
    /\ ret.op = "get_history"
    /\ ret.sid \notin DOMAIN sessions
    /\ ret.value = <<>>
    /\ sessions # EmptyDict

\* a call of chat without a session id
ChatWithoutSid(r) == r.flow = "chat" /\ ~SidGiven(r.arg_sid)

\* the session holds the validated prompt and the reply of the backend, and
\* nothing else
HoldsExactlyExchange(t) ==
    LET r == th[t]
        sid == ValueOf(r.session_id)
    IN  /\ r.session_id # Nothing
        /\ sid \in DOMAIN sessions
        /\ r.calls # <<>>
        /\ ~r.calls[Len(r.calls)].raised
        /\ get_history(sessions, sid, Nothing)
                = <<[role |-> "user", content |-> sanitize(r.arg_prompt)],
                    [role |-> "assistant", content |-> r.calls[Len(r.calls)].value]>>

C21_Exchange ==
    \A t \in Threads :
        (Returned(t) /\ ErrorOf(t) = Nothing /\ ChatWithoutSid(th[t]) /\ ~touched[t])
            => HoldsExactlyExchange(t)

\* the step of chat at which the session is created: the id was not the id of
\* a session and had not been handed out before
C21_FreshId ==
    \A t \in Threads :
        (ChatWithoutSid(th[t]) /\ th[t].pc = "session" /\ th'[t] # th[t]) =>
            /\ th'[t].session_id # Nothing
            /\ ValueOf(th'[t].session_id) \notin DOMAIN sessions
            /\ ValueOf(th'[t].session_id) \notin usedUuids
            /\ DOMAIN sessions' = DOMAIN sessions \cup {ValueOf(th'[t].session_id)}
            /\ sessions'[ValueOf(th'[t].session_id)].messages = <<>>

\* no step of such a call changes a session other than its own
C21_OthersUnchanged ==
    \A t \in Threads :
        ((ChatWithoutSid(th[t]) \/ ChatWithoutSid(th'[t])) /\ th'[t] # th[t]) =>
            \A o \in DOMAIN sessions :
                Some(o) # th'[t].session_id => (o \in DOMAIN sessions' /\ sessions'[o] = sessions[o])

\* C21: chat called without a session id creates a session under an id that is
\* new; when the call returns without error (and no other caller touched the
\* session) that session holds exactly the validated prompt followed by the
\* reply; no step of the call changes a session that existed.
C21_ChatCreatesFreshSession ==
    []C21_Exchange /\ [][C21_FreshId /\ C21_OthersUnchanged]_vars

\* chat without a session id returned without error while the session s1 of
\* an earlier call holds its exchange
C21_Witness ==
    \E t \in Threads :
        /\ Returned(t) /\ ErrorOf(t) = Nothing /\ ChatWithoutSid(th[t]) /\ ~touched[t]
        /\ "s1" \in DOMAIN sessions
        /\ Len(sessions["s1"].messages) = 2
        /\ th[t].session_id # Some("s1")

\* what the override alone says: the configuration handed to _get_model and
\* the name stamped, read from the dict the caller passed
OverrideOf(r) == ValueOf(r.arg_cfg)
OverrideCodeModel(r) ==
    /\ r.flow = "generate_code"
    /\ Get(OverrideOf(r), "mode", "") = "local"
    /\ Get(OverrideOf(r), "local_code_model", "") # ""
OverrideSelects(r) ==
    IF OverrideCodeModel(r)
    THEN [OverrideOf(r) EXCEPT !.local_model = OverrideOf(r).local_code_model]
    ELSE OverrideOf(r)
OverrideModelName(r) ==
    IF OverrideCodeModel(r) THEN OverrideOf(r).local_code_model
    ELSE get_model_name(OverrideOf(r))

C22_Selection ==
    \A t \in Threads :
        LET r == th[t]
        IN  (r.arg_cfg # Nothing) =>
              /\ r.model # Nothing =>
                    Ok(ValueOf(r.model)) \in get_model(OverrideSelects(r), env_api_key)
              /\ (Returned(t) /\ ErrorOf(t) = Nothing) =>
                    /\ ValueOf(r.response).model_used = OverrideModelName(r)
                    /\ ValueOf(r.response).provider_used = get_provider_name(OverrideOf(r))

C22_NothingModified ==
    /\ config' = config
    /\ \A t \in Threads : (Running(t) /\ th'[t].pc # "idle") => th'[t].arg_cfg = th[t].arg_cfg

\* C22: in every flow called with an override, the backend and the stamps are
\* those of the override; no step changes the instance configuration or the
\* override.
C22_OverrideDecides == []C22_Selection /\ [][C22_NothingModified]_vars

LoadReturned(c) == th[c].op = "load_config" /\ th[c].pc = "done" /\ ~th[c].raised

C23_HasDefaultKeys ==
    \A c \in Callers :
        LoadReturned(c) =>
            /\ th[c].result # Nothing
            /\ DOMAIN DEFAULT_CONFIG \subseteq DOMAIN ValueOf(th[c].result)
            /\ th[c].nested => (/\ ValueOf(th[c].result) = DEFAULT_CONFIG
                                /\ config_file.kind = "object")

C23_Completes ==
    \A c \in Callers :
        (th[c].op = "load_config" /\ th[c].pc = "load_read") ~> (th[c].pc = "done")

\* C23: a configuration load_config returns has every key of the defaults;
\* when the file is not JSON the defaults are returned and the file holds an
\* object again; a call of load_config that has the lock comes to its end.
C23_LoadConfigCompletes == []C23_HasDefaultKeys /\ C23_Completes

\* the template get_prompt(name) is to return: the one last registered under
\* the name, the built-in one when none was
CurrentTemplate(name) ==
    IF name \in DOMAIN registered THEN Some(registered[name])
    ELSE IF name \in DOMAIN BuiltinTemplates THEN Some(BuiltinTemplates[name])
    ELSE Nothing

C24_Registry ==
    /\ DOMAIN BuiltinTemplates \subseteq list_prompts(templates)
    /\ ret.op = "list_prompts" => DOMAIN BuiltinTemplates \subseteq ret.value
    /\ \A name \in PromptNames :
        LET cur == CurrentTemplate(name)
            got == get_prompt(templates, name, Nothing)
        IN  IF cur = Nothing THEN got.raised /\ got.exc.type = "ValueError"
            ELSE got = Ok(<<ValueOf(cur).text>>)
    /\ ret.op = "get_prompt" =>
        LET cur == CurrentTemplate(ret.name)
        IN  IF cur = Nothing THEN ret.value.raised /\ ret.value.exc.type = "ValueError"
            ELSE ret.value = Ok(<<ValueOf(cur).text>>)

C24_GetLeavesRegistry == ret'.op \in {"get_prompt", "list_prompts"} => templates' = templates

\* C24: after any registrations the four built-in names are listed;
\* get_prompt(name) without parameters returns the template last registered
\* under name (the built-in one when none was); get_prompt of a name never
\* registered fails, and no get_prompt changes the registry.
C24_RegistryKeepsBuiltins == []C24_Registry /\ [][C24_GetLeavesRegistry]_vars

\* a built-in name was registered again and get_prompt returned the new
\* template, while a name of the caller's own is registered too
C24_Witness ==
    /\ ret.op = "get_prompt"
    /\ ret.name = "chat"
    /\ "chat" \in DOMAIN registered
    /\ ret.value = Ok(<<registered["chat"].text>>)
    /\ registered["chat"] # BuiltinTemplates["chat"]
    /\ "test_custom" \in DOMAIN templates

(***************************************************************************)
(* Claims about OutputParser and InputProcessor called directly            *)
(***************************************************************************)
Blank(s) == \A i \in 1..Len(s) : s[i] \in SpaceChars

\* s without the whitespace at its two ends
Trimmed(s) ==
    IF Blank(s) THEN <<>>
    ELSE LET lo == CHOOSE i \in 1..Len(s) :
                        s[i] \notin SpaceChars /\ \A k \in 1..(i - 1) : s[k] \in SpaceChars
             hi == CHOOSE i \in 1..Len(s) :
                        s[i] \notin SpaceChars /\ \A k \in (i + 1)..Len(s) : s[k] \in SpaceChars
         IN  SubSeq(s, lo, hi)

\* a fenced code region: a fence, word characters, whitespace that ends with a
\* newline, any text, a fence
HasFencedRegion(s) ==
    \E i, j \in 1..Len(s) :
        /\ IsFenceAt(s, i)
        /\ IsFenceAt(s, j)
        /\ \E n \in (i + 3)..(j - 1) :
            /\ s[n] = NL
            /\ \E w \in (i + 3)..n :
                /\ \A k \in (i + 3)..(w - 1) : s[k] \in WordChars
                /\ \A k \in w..n : s[k] \in SpaceChars

ParsedText == IF ret.raw_text = Nothing THEN <<>> ELSE ValueOf(ret.raw_text)

\* C25: parse of a text that is not blank and holds no fenced code region
\* yields one section, of kind text, whose content is the trimmed input;
\* summary is that text, code_blocks is empty, has_code is false, error null.
C25_NoFenceOneTextSection ==
    (ret.op = "parse" /\ ~Blank(ParsedText) /\ ~HasFencedRegion(ParsedText)) =>
        /\ Len(ret.value.sections) = 1
        /\ ret.value.sections[1].type = "text"
        /\ ret.value.sections[1].content = Trimmed(ParsedText)
        /\ ret.value.summary = Trimmed(ParsedText)
        /\ ret.value.code_blocks = <<>>
        /\ ret.value.has_code = FALSE
        /\ ret.value.error = Nothing

\* a text with whitespace at its ends and a fence that is never closed
C25_Witness ==
    /\ ret.op = "parse"
    /\ ~Blank(ParsedText)
    /\ ~HasFencedRegion(ParsedText)
    /\ Trimmed(ParsedText) # ParsedText
    /\ NextFence(ParsedText, 1) # 0
    /\ Len(ret.value.sections) = 1

IsCodeSection(sec) == sec.type = "code"

\* the first index >= pos at which part occurs in text (0 if none)
RECURSIVE FindFrom(_, _, _)
FindFrom(text, part, pos) ==
    IF pos + Len(part) - 1 > Len(text) THEN 0
    ELSE IF SubSeq(text, pos, pos + Len(part) - 1) = part THEN pos
    ELSE FindFrom(text, part, pos + 1)

\* the contents of the sections occur in text one after the other
RECURSIVE InSourceOrder(_, _, _)
InSourceOrder(text, sections, pos) ==
    IF sections = <<>> THEN TRUE
    ELSE LET at == FindFrom(text, Head(sections).content, pos)
         IN  at # 0 /\ InSourceOrder(text, Tail(sections), at + Len(Head(sections).content))

\* a text section that precedes a code section ends before the fence of it
TextBeforeItsFence(text, sections) ==
    \A i \in 1..(Len(sections) - 1) :
        (sections[i].type = "text" /\ sections[i + 1].type = "code") =>
            \E f \in 1..Len(text) :
                /\ IsFenceAt(text, f)
                /\ \E at \in 1..f : /\ at + Len(sections[i].content) <= f
                                    /\ SubSeq(text, at, at + Len(sections[i].content) - 1)
                                            = sections[i].content
                /\ FindFrom(text, sections[i + 1].content, f + 3) # 0

\* C26: in every response of parse, code_blocks has one entry per section of
\* kind code, in the same order, with the same language and content; has_code
\* is true exactly when code_blocks is not empty; the sections follow the
\* order of the source.
C26_CodeBlocksMirrorSections ==
    ret.op = "parse" =>
        LET r == ret.value
            codes == SelectSeq(r.sections, IsCodeSection)
        IN  /\ Len(r.code_blocks) = Len(codes)
            /\ \A i \in 1..Len(codes) :
                /\ r.code_blocks[i].language = codes[i].language
                /\ r.code_blocks[i].content = codes[i].content
            /\ r.has_code = (r.code_blocks # <<>>)
            /\ r.error = Nothing =>
                /\ InSourceOrder(ParsedText, r.sections, 1)
                /\ TextBeforeItsFence(ParsedText, r.sections)

\* a text, a tagged block, an untagged block
C26_Witness ==
    /\ ret.op = "parse"
    /\ Len(ret.value.sections) = 3
    /\ ret.value.sections[1].type = "text"
    /\ Len(ret.value.code_blocks) = 2
    /\ ret.value.code_blocks[1].language # ret.value.code_blocks[2].language

\* C27: parse of an empty, absent or blank text returns the response whose
\* error is the empty-response message and whose one section is of kind error
\* with that message.
C27_BlankIsErrorResponse ==
    (ret.op = "parse" /\ Blank(ParsedText)) =>
        /\ ret.value.error = Some(EMPTY_RESPONSE)
        /\ Len(ret.value.sections) = 1
        /\ ret.value.sections[1].type = "error"
        /\ ret.value.sections[1].content = EMPTY_RESPONSE

\* a text of whitespace only
C27_Witness ==
    /\ ret.op = "parse"
    /\ ret.raw_text # Nothing
    /\ ParsedText # <<>>
    /\ Blank(ParsedText)
    /\ ret.value.error = Some(EMPTY_RESPONSE)

\* C28: sanitize(sanitize(t)) = sanitize(t) for every text t.
C28_SanitizeIdempotent ==
    ret.op = "sanitize" => sanitize(ret.value) = ret.value

\* C29: the result of sanitize holds no null byte and no run of 3 newlines,
\* has no whitespace at its ends and no space or tab directly before a newline.
C29_SanitizeNormalForm ==
    ret.op = "sanitize" =>
        LET s == ret.value
        IN  /\ \A i \in 1..Len(s) : s[i] # NUL
            /\ \A i \in 1..(Len(s) - 2) : ~(s[i] = NL /\ s[i + 1] = NL /\ s[i + 2] = NL)
            /\ s # <<>> => (s[1] \notin SpaceChars /\ s[Len(s)] \notin SpaceChars)
            /\ \A i \in 1..(Len(s) - 1) : ~(s[i] \in HSpaceChars /\ s[i + 1] = NL)

EmptyInputError == Raise(Exc("ValueError", Str("Prompt cannot be empty.")))
TooLongError == Raise(Exc("ValueError", Str("Prompt too long.")))

\* C30: validate_prompt(text, max_length) fails with the empty-input error
\* exactly when sanitize(text) is empty, with the too-long error exactly when
\* sanitize(text) is not empty and longer than max_length, and returns
\* sanitize(text) otherwise; a length of exactly max_length is accepted.
C30_ValidatePromptOutcome ==
    ret.op = "validate_prompt" =>
        LET cleaned == sanitize(ret.text)
            o == ret.outcome
        IN  /\ (o = EmptyInputError) <=> (cleaned = <<>>)
            /\ (o = TooLongError) <=> (cleaned # <<>> /\ Len(cleaned) > ret.max_length)
            /\ (o # EmptyInputError /\ o # TooLongError) => o = Ok(cleaned)
            /\ (cleaned # <<>> /\ Len(cleaned) = ret.max_length) => o = Ok(cleaned)

\* a text that sanitize changes, accepted at exactly max_length characters
C30_Witness ==
    /\ ret.op = "validate_prompt"
    /\ ~ret.outcome.raised
    /\ Len(ret.outcome.value) = ret.max_length
    /\ ret.max_length = MaxLengthArg
    /\ Len(ret.text) > ret.max_length

(***************************************************************************)
(* The retry schedule of _invoke_model                                     *)
(***************************************************************************)
\* the attempts of the current invoke that ended in an exception
FailedAttempts(r) == {i \in 1..Len(r.calls) : r.calls[i].raised}

RECURSIVE SumOf(_)
SumOf(s) == IF s = <<>> THEN 0 ELSE Head(s) + SumOf(Tail(s))

\* C32: the waits of one invoke are 1 second after a failed first attempt and
\* 2 seconds after a failed second attempt, none after a failed third attempt or
\* after a successful attempt; their sum never exceeds 3 seconds.
C32_RetrySchedule ==
    \A t \in DOMAIN th :
        LET r == th[t]
            failed == Cardinality(FailedAttempts(r))
        IN  /\ r.waits = SubSeq(<<1, 2>>, 1, Min(failed, 2))
            /\ SumOf(r.waits) <= 3
            /\ r.raw_response # Nothing => Len(r.waits) = Len(r.calls) - 1

\* an invoke whose three attempts failed: two waits, 1 and 2 seconds
C32_Witness ==
    \E t \in DOMAIN th :
        /\ th[t].pc = "done"
        /\ Cardinality(FailedAttempts(th[t])) = 3
        /\ th[t].waits = <<1, 2>>

(***************************************************************************)
(* cleanup_expired called twice                                            *)
(***************************************************************************)
\* C33: a cleanup_expired made right after a cleanup_expired, at the same value
\* of the clock, removes no session and returns 0: the store stays as the first
\* call left it.
C33_CleanupIdempotent ==
    [][(ret.op = "cleanup_expired" /\ ret.at = now /\ StoreCall("cleanup_expired"))
            => (ret'.value = 0 /\ sessions' = sessions)]_vars

\* a cleanup_expired has just removed a session and kept another one: the state
\* in which the second call is made
C33_Witness ==
    /\ ret.op = "cleanup_expired"
    /\ ret.at = now
    /\ ret.value >= 1
    /\ sessions # EmptyDict

(***************************************************************************)
(* The read operations of the store                                        *)
(***************************************************************************)
\* the sessions whose last_active the step sets: new ones and changed ones
LastActiveSet ==
    {sid \in DOMAIN sessions' :
        \/ sid \notin DOMAIN sessions
        \/ sessions'[sid].last_active # sessions[sid].last_active}

\* C38: get_history and list_sessions change nothing of any session (messages,
\* created_at, last_active), and a step that sets the last_active of a session
\* is a create_session or an add_message.
C38_ReadsAreReadOnly ==
    [][/\ (StoreCall("get_history") \/ StoreCall("list_sessions")) => sessions' = sessions
       /\ LastActiveSet # {} => ret'.op \in {"create_session", "add_message"}]_vars

\* get_history has returned the messages of a session last written before the
\* current value of the clock, and the session still carries the earlier time
C38_Witness ==
    /\ ret.op = "get_history"
    /\ ret.sid \in DOMAIN sessions
    /\ ret.value # <<>>
    /\ sessions[ret.sid].last_active < now

(***************************************************************************)
(* cleanup_expired interleaved with add_message                            *)
(***************************************************************************)
\* cleanup_expired removed no session on which an add_message returned after
\* the clock was read
C39_KeepsSessionsWrittenAfterRead ==
    ret.op = "cleanup_expired" => ret.removed \cap ret.after = {}

\* the sessions cleanup_expired removed were over the TTL when the clock was read
C39_RemovesOnlyExpiredAtRead ==
    ret.op = "cleanup_expired" => ret.removed \subseteq ret.seen

\* C39: under every interleaving with add_message, and ttl >= 0, cleanup_expired
\* removes no session whose last add_message returned after cleanup_expired read
\* the clock, and removes only sessions that were over the TTL at that moment.
C39_CleanupSparesLaterWrites ==
    C39_KeepsSessionsWrittenAfterRead /\ C39_RemovesOnlyExpiredAtRead

(***************************************************************************)
(* What a call that ends in an error response leaves in the store          *)
(***************************************************************************)
\* the step is an add_message of the flow of thread t
FlowAppends(t) ==
    /\ th[t].pc \in {"add_user", "add_assistant"}
    /\ th'[t] # th[t]

\* C36: a flow that returns a response with error set has appended no message:
\* whenever a flow appends to a session, the response it is about to return
\* carries no error.
C36_ErrorResponseAppendsNothing ==
    [][\A t \in Threads :
          FlowAppends(t) => ValueOf(th[t].response).error = Nothing]_vars

\* C37: when chat, called without a session id, has returned an error response,
\* the session it created for the call is not in the store.
C37_FailedChatLeavesNoSession ==
    \A t \in Threads :
        (/\ Returned(t)
         /\ th[t].flow = "chat"
         /\ ~SidGiven(th[t].arg_sid)
         /\ ErrorOf(t) # Nothing
         /\ th[t].session_id # Nothing
         /\ ~touched[t])
            => ValueOf(th[t].session_id) \notin DOMAIN sessions

(***************************************************************************)
(* The backend of generate_code                                            *)
(***************************************************************************)
\* a local-mode configuration that names a non-empty local_code_model
NamesCodeModel(cfg) ==
    /\ "mode" \in DOMAIN cfg /\ cfg["mode"] = "local"
    /\ "local_code_model" \in DOMAIN cfg /\ cfg["local_code_model"] # ""

\* C34: generate_code on a local configuration that names a code model resolves
\* the wrapper of that model and stamps model_used with its name; on any other
\* configuration it resolves what _get_model gives every flow for the
\* configuration and stamps the name the other flows stamp.
C34_CodeModelPreferred ==
    \A t \in Threads :
        LET r == th[t]
        IN  r.flow = "generate_code" =>
              /\ r.model # Nothing =>
                    IF NamesCodeModel(r.cfg)
                    THEN ValueOf(r.model) = OllamaWrapper(r.cfg["local_code_model"])
                    ELSE Ok(ValueOf(r.model)) \in get_model(r.cfg, env_api_key)
              /\ (Returned(t) /\ ErrorOf(t) = Nothing) =>
                    ValueOf(r.response).model_used =
                        IF NamesCodeModel(r.cfg) THEN r.cfg["local_code_model"]
                        ELSE get_model_name(r.cfg)

\* generate_code has returned code produced by the code model of a local
\* configuration
C34_Witness ==
    \E t \in Threads :
        /\ th[t].flow = "generate_code"
        /\ Returned(t)
        /\ ErrorOf(t) = Nothing
        /\ NamesCodeModel(th[t].cfg)
        /\ ValueOf(th[t].model) = OllamaWrapper("deepseek-coder:6.7b")
        /\ ValueOf(th[t].response).model_used = "deepseek-coder:6.7b"
        /\ ValueOf(th[t].response).has_code

(***************************************************************************)
(* Flows running at the same time                                          *)
(***************************************************************************)
\* C31: the lock of the store is held only by a flow that is inside an
\* operation of the store: a flow in a model call, in a retry wait or in a
\* retrieval (or at any other step) does not own it.
C31_NoLockAcrossModelCalls ==
    \A t \in ConcThreads :
        /\ th[t].pc \in {"invoke", "sleep", "retrieve"} => lock # Some(t)
        /\ lock = Some(t) => th[t].pc \in StoreSteps

\* one flow is waiting between two attempts of its model call while the other
\* flow is inside the lock, writing to the same session
C31_Witness ==
    \E t, u \in ConcThreads :
        /\ th[t].pc = "sleep"
        /\ th[u].pc = "add_user"
        /\ lock = Some(u)
        /\ th[t].session_id = th[u].session_id

\* the messages of the session of flow t
SessionMessages(t) ==
    IF ValueOf(th[t].session_id) \in DOMAIN sessions
    THEN sessions[ValueOf(th[t].session_id)].messages
    ELSE <<>>

\* position i holds the user message of flow t and position i + 1 its reply
PairAt(t, msgs, i) ==
    /\ i + 1 <= Len(msgs)
    /\ msgs[i].role = "user" /\ msgs[i].content = th[t].prompt
    /\ msgs[i + 1].role = "assistant"
    /\ msgs[i + 1].content = ValueOf(th[t].raw_response)

\* C35: with flows running at the same time on one session id, the user message
\* of a flow is directly followed by the assistant message of that flow: until
\* the flow appends its reply its user message is the last one of the session,
\* and afterwards the two are next to each other.
C35_ExchangeNotSplit ==
    \A t \in ConcThreads :
        LET msgs == SessionMessages(t)
        IN  /\ th[t].pc = "add_assistant" =>
                    /\ msgs # <<>>
                    /\ msgs[Len(msgs)].role = "user"
                    /\ msgs[Len(msgs)].content = th[t].prompt
            /\ (th[t].pc = "done" /\ th[t].failed_at = "" /\ th[t].raw_response # Nothing) =>
                    \E i \in 1..Len(msgs) : PairAt(t, msgs, i)

(***************************************************************************)
(* Updates of the configuration served at the same time                    *)
(***************************************************************************)
\* the request of c has been answered with success
Updated(c) == th[c].pc = "done" /\ ~th[c].raised

\* the file holds the value the request of c set
Persisted(c) ==
    /\ config_file.kind = "object"
    /\ \A k \in DOMAIN th[c].body :
          k \in DOMAIN config_file.value /\ config_file.value[k] = th[c].body[k]

====
